---- MODULE Spec2Model ----
(***************************************************************************)
(* Clara reverse proxy: routing table, longest-match algorithm, path       *)
(* rewriting director, round-robin load balancer, hot reload of the        *)
(* configuration and the metrics middleware.                               *)
(*                                                                         *)
(* Paths are sequences of one-character strings, so that the prefix,       *)
(* suffix and trimming functions of the Go strings package are computed    *)
(* character by character.                                                 *)
(***************************************************************************)
EXTENDS Integers, Sequences, FiniteSets, TLC

VARIABLES
    config,     \* the package-level Config that yaml.Unmarshal decodes into
    heap,       \* the Go maps allocated for Config.ErrorPages: reference -> map
    routers,    \* every *Router built so far, in order of construction
    published,  \* app.router: index into routers, 0 while nothing is stored
    lbNext,     \* LoadBalancer.next of the balancer of route i of router g
    probe,      \* outcome of the last sequential request
    served,     \* sequential requests: the balancer dispatches, oldest first
    files,      \* the candidate config files: present, document, modification time
    mainPc,     \* where main() is: "load", "select", "serving", "draining", "exited"
    poller,     \* the hot-reload goroutine: pc, configPath, lastModTime, stat
    reqs,       \* the request goroutines: pc and locals of each
    reloads,    \* the log lines of the reload attempts: "ok" or "failed"
    builtPages, \* for each router, the content of its error-page map when built
    writes,     \* how many times the environment has rewritten the source
    listeners,  \* the proxy listeners: server (:80 or :443) and the ACME one on :80
    life        \* main's decisions and outcome: mode, exit status, final log line

seqVars == <<probe, served>>
lifeVars == <<listeners, life>>
sysVars == <<files, mainPc, poller, reqs, reloads, builtPages, writes, lifeVars>>

vars == <<config, heap, routers, published, lbNext, probe, served,
          files, mainPc, poller, reqs, reloads, builtPages, writes,
          listeners, life>>

----------------------------------------------------------------------------
(* Bounds of the model.                                                    *)

MaxPathLen == 3     \* longest declared route path
MaxRoutes == 2      \* most routes in a drawn configuration
MaxSeq == 10        \* most sequential requests through one table
MaxBackends == 3    \* most servers of a load-balanced service
MaxRequests == 2    \* concurrent request goroutines
MaxWrites == 1      \* rewrites of the config source by the environment
MaxBuildRoutes == 3 \* most routes of a configuration given to newRouter
MaxLBRequests == 3  \* concurrent request goroutines on one fixed table
MaxSourceOps == 2   \* files created or rewritten while the process runs

Alphabet == {"/", "a"}

Slash == <<"/">>

\* All character sequences of length lo..hi.
Strings(lo, hi) == UNION {[1..k -> Alphabet] : k \in lo..hi}

Nil == 0

----------------------------------------------------------------------------
(* The Go strings package, as used by the router and the director.         *)

HasPrefix(s, prefix) ==
    /\ Len(s) >= Len(prefix)
    /\ SubSeq(s, 1, Len(prefix)) = prefix

HasSuffix(s, suffix) ==
    /\ Len(s) >= Len(suffix)
    /\ SubSeq(s, Len(s) - Len(suffix) + 1, Len(s)) = suffix

TrimPrefix(s, prefix) ==
    IF HasPrefix(s, prefix) THEN SubSeq(s, Len(prefix) + 1, Len(s)) ELSE s

----------------------------------------------------------------------------
(* net/http/httputil.NewSingleHostReverseProxy: the default director joins *)
(* the target's path and the request path with exactly one slash.          *)

singleJoiningSlash(a, b) ==
    LET aslash == HasSuffix(a, Slash)
        bslash == HasPrefix(b, Slash)
    IN  IF aslash /\ bslash THEN a \o Tail(b)
        ELSE IF ~aslash /\ ~bslash THEN a \o Slash \o b
        ELSE a \o b

originalDirector(target, reqPath) == singleJoiningSlash(target.base, reqPath)

\* The director without the leading-separator repair (the earlier revision).
DirectorNoSlashFix(proxy, reqPath) ==
    TrimPrefix(originalDirector(proxy.target, reqPath), proxy.strip)

\* proxy.Director of a backend built for a route: the path sent upstream.
Director(proxy, reqPath) ==
    LET targetPath == TrimPrefix(originalDirector(proxy.target, reqPath), proxy.strip)
    IN  IF ~HasPrefix(targetPath, Slash) THEN Slash \o targetPath ELSE targetPath

----------------------------------------------------------------------------
(* Router.findBestMatch: the index of the winning entry, Nil for no match. *)

RECURSIVE findBestMatchLoop(_, _, _, _, _)
findBestMatchLoop(routes, requestPath, i, bestMatch, bestMatchLen) ==
    IF i > Len(routes) THEN bestMatch
    ELSE IF routes[i].path = requestPath THEN i
    ELSE IF /\ HasSuffix(routes[i].path, Slash)
            /\ HasPrefix(requestPath, routes[i].path)
            /\ Len(routes[i].path) > bestMatchLen
         THEN findBestMatchLoop(routes, requestPath, i + 1, i, Len(routes[i].path))
         ELSE findBestMatchLoop(routes, requestPath, i + 1, bestMatch, bestMatchLen)

\* A matcher that does not stop at an exact match.
RECURSIVE findBestMatchNoBreak(_, _, _, _, _)
findBestMatchNoBreak(routes, requestPath, i, bestMatch, bestMatchLen) ==
    IF i > Len(routes) THEN bestMatch
    ELSE IF /\ \/ routes[i].path = requestPath
               \/ /\ HasSuffix(routes[i].path, Slash)
                  /\ HasPrefix(requestPath, routes[i].path)
            /\ Len(routes[i].path) >= bestMatchLen
         THEN findBestMatchNoBreak(routes, requestPath, i + 1, i, Len(routes[i].path))
         ELSE findBestMatchNoBreak(routes, requestPath, i + 1, bestMatch, bestMatchLen)

findBestMatchLastWins(r, requestPath) ==
    findBestMatchNoBreak(r.routes, requestPath, 1, Nil, -1)

\* A matcher that keeps the first prefix candidate, whatever its length.
RECURSIVE findBestMatchFirstLoop(_, _, _, _)
findBestMatchFirstLoop(routes, requestPath, i, bestMatch) ==
    IF i > Len(routes) THEN bestMatch
    ELSE IF routes[i].path = requestPath THEN i
    ELSE IF /\ HasSuffix(routes[i].path, Slash)
            /\ HasPrefix(requestPath, routes[i].path)
            /\ bestMatch = Nil
         THEN findBestMatchFirstLoop(routes, requestPath, i + 1, i)
         ELSE findBestMatchFirstLoop(routes, requestPath, i + 1, bestMatch)

findBestMatchFirstPrefix(r, requestPath) ==
    findBestMatchFirstLoop(r.routes, requestPath, 1, Nil)

\* A matcher whose length comparison is reversed: the shortest prefix wins.
RECURSIVE findBestMatchShortLoop(_, _, _, _, _)
findBestMatchShortLoop(routes, requestPath, i, bestMatch, bestMatchLen) ==
    IF i > Len(routes) THEN bestMatch
    ELSE IF routes[i].path = requestPath THEN i
    ELSE IF /\ HasSuffix(routes[i].path, Slash)
            /\ HasPrefix(requestPath, routes[i].path)
            /\ (bestMatch = Nil \/ Len(routes[i].path) < bestMatchLen)
         THEN findBestMatchShortLoop(routes, requestPath, i + 1, i, Len(routes[i].path))
         ELSE findBestMatchShortLoop(routes, requestPath, i + 1, bestMatch, bestMatchLen)

findBestMatchShortestPrefix(r, requestPath) ==
    findBestMatchShortLoop(r.routes, requestPath, 1, Nil, -1)

\* The matcher of the earlier revisions: "/" is never a prefix candidate.
RECURSIVE findBestMatchRootLoop(_, _, _, _, _)
findBestMatchRootLoop(routes, requestPath, i, bestMatch, bestMatchLen) ==
    IF i > Len(routes) THEN bestMatch
    ELSE IF routes[i].path = requestPath THEN i
    ELSE IF /\ routes[i].path # Slash
            /\ HasSuffix(routes[i].path, Slash)
            /\ HasPrefix(requestPath, routes[i].path)
            /\ Len(routes[i].path) > bestMatchLen
         THEN findBestMatchRootLoop(routes, requestPath, i + 1, i, Len(routes[i].path))
         ELSE findBestMatchRootLoop(routes, requestPath, i + 1, bestMatch, bestMatchLen)

findBestMatchRootExcluded(r, requestPath) ==
    findBestMatchRootLoop(r.routes, requestPath, 1, Nil, -1)

\* A matcher whose length comparison is not strict: of several prefix
\* candidates of the same length the last one wins.
RECURSIVE findBestMatchTieLoop(_, _, _, _, _)
findBestMatchTieLoop(routes, requestPath, i, bestMatch, bestMatchLen) ==
    IF i > Len(routes) THEN bestMatch
    ELSE IF routes[i].path = requestPath THEN i
    ELSE IF /\ HasSuffix(routes[i].path, Slash)
            /\ HasPrefix(requestPath, routes[i].path)
            /\ Len(routes[i].path) >= bestMatchLen
         THEN findBestMatchTieLoop(routes, requestPath, i + 1, i, Len(routes[i].path))
         ELSE findBestMatchTieLoop(routes, requestPath, i + 1, bestMatch, bestMatchLen)

findBestMatchLastOfEqual(r, requestPath) ==
    findBestMatchTieLoop(r.routes, requestPath, 1, Nil, -1)

findBestMatch(r, requestPath) ==
    findBestMatchLoop(r.routes, requestPath, 1, Nil, -1)

----------------------------------------------------------------------------
(* App.newRouter: Config -> Router.                                        *)

NoHandler == [kind |-> "none"]

BadHost == "bad host"   \* a host for which url.Parse("http://host:port") fails

\* serviceMap[name]: a later service of the same name replaces an earlier one.
serviceIndex(services, name) ==
    LET idx == {i \in 1..Len(services) : services[i].Name = name}
    IN  IF idx = {} THEN Nil ELSE CHOOSE i \in idx : \A j \in idx : j <= i

NewProxy(target, routePath) ==
    [kind |-> "proxy", target |-> target, strip |-> routePath]

\* The backends of a LoadBalancer: one proxy per server URL that parses.
RECURSIVE lbBackends(_, _)
lbBackends(servers, routePath) ==
    IF servers = <<>> THEN <<>>
    ELSE LET s == Head(servers)
             rest == lbBackends(Tail(servers), routePath)
         IN  IF s.parses
             THEN <<NewProxy([origin |-> s.origin, base |-> s.base], routePath)>> \o rest
             ELSE rest

\* A builder that keeps the LoadBalancer of a service none of whose server
\* URLs parses.
buildHandlerKeepsEmptyLB(svc, routePath) ==
    IF Len(svc.Servers) > 0
    THEN [kind |-> "lb", backends |-> lbBackends(svc.Servers, routePath)]
    ELSE IF svc.Host # "" /\ svc.Host # BadHost
    THEN NewProxy([origin |-> <<svc.Host, svc.Port>>, base |-> <<>>], routePath)
    ELSE NoHandler

\* The handler newRouter gives a route on service svc: a LoadBalancer when
\* the service lists servers and one URL at least parses, a single proxy
\* when it has a host, none otherwise.
buildHandler(svc, routePath) ==
    IF Len(svc.Servers) > 0
    THEN LET backends == lbBackends(svc.Servers, routePath)
         IN  IF Len(backends) > 0
             THEN [kind |-> "lb", backends |-> backends]
             ELSE NoHandler
    ELSE IF svc.Host # "" /\ svc.Host # BadHost
    THEN NewProxy([origin |-> <<svc.Host, svc.Port>>, base |-> <<>>], routePath)
    ELSE NoHandler

\* A builder that gives up the whole table at the first route whose service
\* is not declared.
RECURSIVE compileRoutesAbortOnUnknown(_, _)
compileRoutesAbortOnUnknown(services, routes) ==
    IF routes = <<>> THEN <<>>
    ELSE IF \E k \in 1..Len(routes) : serviceIndex(services, routes[k].Service) = Nil
    THEN <<>>
    ELSE LET route == Head(routes)
             rest == compileRoutesAbortOnUnknown(services, Tail(routes))
             handler == buildHandler(services[serviceIndex(services, route.Service)],
                                     route.Path)
         IN  IF handler.kind = "none" THEN rest
             ELSE <<[path |-> route.Path, service |-> route.Service,
                     handler |-> handler]>> \o rest

\* A builder whose directors all read one loop variable, which holds the
\* last declared route once the loop has ended.
RECURSIVE compileRoutesSharedLoopVar(_, _)
compileRoutesSharedLoopVar(services, routes) ==
    IF routes = <<>> THEN <<>>
    ELSE LET route == Head(routes)
             last == routes[Len(routes)]
             rest == compileRoutesSharedLoopVar(services, Tail(routes))
             k == serviceIndex(services, route.Service)
         IN  IF k = Nil THEN rest
             ELSE LET handler == buildHandler(services[k], last.Path)
                  IN  IF handler.kind = "none" THEN rest
                      ELSE <<[path |-> route.Path, service |-> route.Service,
                              handler |-> handler]>> \o rest

\* The loop of newRouter over config.Routes; each director closes over the
\* route of its own iteration.
RECURSIVE compileRoutes(_, _)
compileRoutes(services, routes) ==
    IF routes = <<>> THEN <<>>
    ELSE LET route == Head(routes)
             rest == compileRoutes(services, Tail(routes))
             k == serviceIndex(services, route.Service)
         IN  IF k = Nil THEN rest
             ELSE LET handler == buildHandler(services[k], route.Path)
                  IN  IF handler.kind = "none" THEN rest
                      ELSE <<[path |-> route.Path, service |-> route.Service,
                              handler |-> handler]>> \o rest

newRouter(cfg) ==
    [routes |-> compileRoutes(cfg.Services, cfg.Routes),
     errorPages |-> cfg.ErrorPages]

\* The rotation counters of a new router: one LoadBalancer per compiled route.
newCounters(r) == [i \in 1..Len(r.routes) |-> 0]

----------------------------------------------------------------------------
(* LoadBalancer.ServeHTTP: the backend selected under lb.mu.               *)

\* A balancer that increments the counter before it selects.
lbSelectAfterIncrement(lb, next) == ((next + 1) % Len(lb.backends)) + 1

\* The Go type int of a build for a 32-bit platform; on a 64-bit platform
\* the bounds are those of 64 bits and the arithmetic is the same.
MaxInt == 2147483647
MinInt == -MaxInt - 1

\* n++ on an int: the increment wraps from the largest value to the least.
IntIncrement(n) == IF n = MaxInt THEN MinInt ELSE n + 1

\* a % n of Go for n > 0: the remainder of the division truncated toward
\* zero, which has the sign of a.
GoRem(a, n) ==
    LET m == a % n
    IN  IF a >= 0 \/ m = 0 THEN m ELSE m - n

\* lb.next % len(lb.backends) as a position in the sequence of backends
\* (from 1); a value outside 1..len is an index Go panics on.
lbSelect(lb, next) == GoRem(next, Len(lb.backends)) + 1

----------------------------------------------------------------------------
(* Router.ServeHTTP for one request handled without interleaving: the      *)
(* welcome document, the dispatch to the matched entry's handler, or 404.  *)

NoEntry == [kind |-> "notfound", entry |-> Nil, service |-> "", backend |-> Nil,
            origin |-> Nil, forwarded |-> <<>>]

Welcome == [kind |-> "welcome", entry |-> Nil, service |-> "", backend |-> Nil,
            origin |-> Nil, forwarded |-> <<>>]

\* The dispatch of request path p by entry m of router r through backend b.
Dispatch(r, m, b, p) ==
    LET h == r.routes[m].handler
        proxy == IF h.kind = "lb" THEN h.backends[b] ELSE h
    IN  [kind |-> "proxied", entry |-> m, service |-> r.routes[m].service,
         backend |-> b, origin |-> proxy.target.origin,
         forwarded |-> Director(proxy, p)]

\* A router with one rotation per service: a dispatch advances the
\* counter of every entry on the service of the matched entry.
SeqRequestSharedRotation(p) ==
    /\ published # Nil
    /\ LET g == published
           r == routers[g]
           m == findBestMatch(r, p)
       IN  IF Len(r.routes) = 0 /\ p = Slash
           THEN /\ probe' = [path |-> p, out |-> Welcome]
                /\ UNCHANGED <<lbNext, served>>
           ELSE IF m = Nil
           THEN /\ probe' = [path |-> p, out |-> NoEntry]
                /\ UNCHANGED <<lbNext, served>>
           ELSE IF r.routes[m].handler.kind = "lb"
           THEN LET b == lbSelect(r.routes[m].handler, lbNext[g][m])
                IN  /\ Len(served) < MaxSeq
                    /\ lbNext' = [lbNext EXCEPT ![g] =
                           [e \in 1..Len(r.routes) |->
                               IF r.routes[e].service = r.routes[m].service
                               THEN IntIncrement(@[e]) ELSE @[e]]]
                    /\ served' = Append(served, [route |-> m, backend |-> b])
                    /\ probe' = [path |-> p, out |-> Dispatch(r, m, b, p)]
           ELSE /\ probe' = [path |-> p, out |-> Dispatch(r, m, 1, p)]
                /\ UNCHANGED <<lbNext, served>>
    /\ UNCHANGED <<config, heap, routers, published>>
    /\ UNCHANGED sysVars

SeqRequest(p) ==
    /\ published # Nil
    /\ LET g == published
           r == routers[g]
           m == findBestMatch(r, p)
       IN  IF Len(r.routes) = 0 /\ p = Slash
           THEN /\ probe' = [path |-> p, out |-> Welcome]
                /\ UNCHANGED <<lbNext, served>>
           ELSE IF m = Nil
           THEN /\ probe' = [path |-> p, out |-> NoEntry]
                /\ UNCHANGED <<lbNext, served>>
           ELSE IF r.routes[m].handler.kind = "lb"
           THEN LET b == lbSelect(r.routes[m].handler, lbNext[g][m])
                IN  /\ Len(served) < MaxSeq
                    /\ lbNext' = [lbNext EXCEPT ![g][m] = IntIncrement(@)]
                    /\ served' = Append(served, [route |-> m, backend |-> b])
                    /\ probe' = [path |-> p, out |-> Dispatch(r, m, b, p)]
           ELSE /\ probe' = [path |-> p, out |-> Dispatch(r, m, 1, p)]
                /\ UNCHANGED <<lbNext, served>>
    /\ UNCHANGED <<config, heap, routers, published>>
    /\ UNCHANGED sysVars

----------------------------------------------------------------------------
(* Sequential specification 1: every small routing table of single-host    *)
(* routes, every small request path.                                       *)

NoTLS == [Email |-> "", Domains |-> <<>>]

\* No listener started yet: server is the *http.Server main keeps (":80" in
\* plain mode, ":443" in automatic-HTTPS mode), acme the anonymous server
\* of http.ListenAndServe(":80", certManager.HTTPHandler(nil)).
NoListeners == [server |-> "off", acme |-> "off"]

PlainListeners == [server |-> "accepting", acme |-> "off"]

HTTPSListeners == [server |-> "accepting", acme |-> "accepting"]

\* main before the initial load: no mode chosen, nothing logged. loaded is
\* the candidate the initial load read (0 for the embedded document),
\* startTLS whether the initially loaded config has TLS domains, inflight
\* the requests still in flight when server.Shutdown returned; readPath,
\* readTime and readDoc are the candidate, its modification time and the
\* document that the most recent loadAndServeConfig read; metricsFailed
\* whether http.ListenAndServe(":9091") has returned.
NewLife ==
    [mode |-> "none", startTLS |-> FALSE, loaded |-> -1, result |-> "running",
     finalLogged |-> FALSE, inflight |-> 0,
     readPath |-> -1, readTime |-> 0, readDoc |-> [parse |-> "none"],
     metricsFailed |-> FALSE]

ServiceA == [Name |-> "a", Host |-> "localhost", Port |-> 9001, Servers |-> <<>>]

RoutePaths == Strings(0, MaxPathLen)

RequestPaths == {p \in Strings(1, MaxPathLen + 1) : p[1] = "/"}

RouteLists ==
    UNION {[1..n -> [Path : RoutePaths, Service : {"a"}]] : n \in 0..MaxRoutes}

NoProbe == [path |-> <<>>, out |-> [kind |-> "none"]]

InitWith(cfg) ==
    /\ config = cfg
    /\ heap = <<>>
    /\ routers = <<newRouter(cfg)>>
    /\ published = 1
    /\ lbNext = <<newCounters(newRouter(cfg))>>
    /\ probe = NoProbe
    /\ served = <<>>
    /\ files = <<>>
    /\ mainPc = "serving"
    /\ poller = [pc |-> "stopped", configPath |-> Nil, lastModTime |-> 0, stat |-> 0]
    /\ reqs = <<>>
    /\ reloads = <<>>
    /\ builtPages = <<<<>>>>
    /\ writes = 0
    /\ listeners = PlainListeners
    /\ life = [NewLife EXCEPT !.mode = "plain", !.loaded = 0]

InitRoute ==
    \E rs \in RouteLists :
        InitWith([ErrorPages |-> Nil, TLS |-> NoTLS,
                  Services |-> <<ServiceA>>, Routes |-> rs])

NextRoute == probe = NoProbe /\ \E p \in RequestPaths : SeqRequest(p)

SpecRoute == InitRoute /\ [][NextRoute]_vars

----------------------------------------------------------------------------
(* Sequential specification 2: one table with two routes on a balanced     *)
(* service and one route on a single host, many requests in a row.         *)

Server(i, ok) == [parses |-> ok, origin |-> i, base |-> <<>>]

\* N servers; with firstBad the first URL of the list does not parse.
ServerList(n, firstBad) == [i \in 1..n |-> Server(i, ~(firstBad /\ i = 1))]

ServiceLB(servers) ==
    [Name |-> "lb", Host |-> "", Port |-> 0, Servers |-> servers]

PathApi == <<"/", "a", "/">>
PathPing == <<"/", "a", "/", "a">>
PathLogin == <<"/", "a", "a">>
PathX == <<"/", "a">>

SeqRoutes ==
    <<[Path |-> PathApi, Service |-> "lb"],
      [Path |-> PathLogin, Service |-> "a"],
      [Path |-> Slash, Service |-> "lb"]>>

SeqPaths == {PathPing, PathLogin, PathX, Slash}

InitSeq ==
    \E n \in 1..MaxBackends, firstBad \in BOOLEAN :
        /\ firstBad => n > 1
        /\ InitWith([ErrorPages |-> Nil, TLS |-> NoTLS,
                     Services |-> <<ServiceA, ServiceLB(ServerList(n, firstBad))>>,
                     Routes |-> SeqRoutes])

NextSeq == \E p \in SeqPaths : SeqRequest(p)

SpecSeq == InitSeq /\ [][NextSeq]_vars

----------------------------------------------------------------------------
(* Sequential specification 3: newRouter on configurations whose routes    *)
(* name declared, undeclared and unusable services.                        *)

\* A declared service with neither host nor servers.
ServiceNoHost == [Name |-> "nohost", Host |-> "", Port |-> 0, Servers |-> <<>>]

\* A declared service whose only server URL does not parse.
ServiceBadLB ==
    [Name |-> "badlb", Host |-> "", Port |-> 0, Servers |-> <<Server(1, FALSE)>>]

BuildServices ==
    <<ServiceA, ServiceLB(ServerList(2, FALSE)), ServiceNoHost, ServiceBadLB>>

\* "ghost" is declared by no service.
BuildServiceNames == {"a", "lb", "nohost", "badlb", "ghost"}

BuildPaths == {Slash, PathApi, PathLogin}

BuildRouteLists ==
    UNION {[1..n -> [Path : BuildPaths, Service : BuildServiceNames]] :
              n \in 0..MaxBuildRoutes}

InitBuild ==
    \E rs \in BuildRouteLists :
        InitWith([ErrorPages |-> Nil, TLS |-> NoTLS,
                  Services |-> BuildServices, Routes |-> rs])

NextBuild == probe = NoProbe /\ \E p \in SeqPaths : SeqRequest(p)

SpecBuild == InitBuild /\ [][NextBuild]_vars

----------------------------------------------------------------------------
(* Properties of the matching algorithm and of the director (SpecRoute).   *)

SetMin(S) == CHOOSE x \in S : \A y \in S : x <= y

Probed == probe # NoProbe

Table == routers[published].routes

\* The entries whose declared path equals p.
ExactEntries(p) == {i \in 1..Len(Table) : Table[i].path = p}

\* The entries whose declared path ends with "/" and is a prefix of p.
PrefixEntries(p) ==
    {i \in 1..Len(Table) : HasSuffix(Table[i].path, Slash) /\ HasPrefix(p, Table[i].path)}

\* The prefix candidates as section 4.1 of the specification defines them.
NonRootPrefixEntries(p) == {i \in PrefixEntries(p) : Table[i].path # Slash}

Longest(S, i) == i \in S /\ \A j \in S : Len(Table[j].path) <= Len(Table[i].path)

\* C1: when some entry's declared path equals the request path, the first
\* such entry in table order dispatches the request, whatever prefix
\* candidates stand before or after it.
C1_ExactMatchFirst ==
    (Probed /\ ExactEntries(probe.path) # {}) =>
        /\ probe.out.kind = "proxied"
        /\ probe.out.entry = SetMin(ExactEntries(probe.path))

\* C1 witness: an exact match that stands after a prefix candidate.
C1_Witness ==
    /\ Probed
    /\ ExactEntries(probe.path) # {}
    /\ \E j \in PrefixEntries(probe.path) :
          j < probe.out.entry /\ Table[j].path # probe.path

ApiPath == <<"/", "a", "p", "i", "/">>
ApiV2Path == <<"/", "a", "p", "i", "/", "v", "2", "/">>
WidgetsPath == <<"/", "a", "p", "i", "/", "v", "2", "/", "w">>

ApiTable(first, second) ==
    newRouter([ErrorPages |-> Nil, TLS |-> NoTLS, Services |-> <<ServiceA>>,
               Routes |-> <<[Path |-> first, Service |-> "a"],
                            [Path |-> second, Service |-> "a"]>>])

\* /api/ and /api/v2/ in either order: /api/v2/widgets resolves to /api/v2/.
ApiScenario ==
    /\ findBestMatch(ApiTable(ApiPath, ApiV2Path), WidgetsPath) = 2
    /\ findBestMatch(ApiTable(ApiV2Path, ApiPath), WidgetsPath) = 1

\* C2 as stated, with the prefix candidates of section 4.1 (a declared path
\* that is not "/", ends with "/" and is a prefix of the request path): a
\* request path that no entry equals resolves to the longest candidate, and
\* to no entry when there is no candidate.
C2_LongestPrefixRootExcluded ==
    (Probed /\ ExactEntries(probe.path) = {}) =>
        IF NonRootPrefixEntries(probe.path) = {}
        THEN probe.out.entry = Nil
        ELSE Longest(NonRootPrefixEntries(probe.path), probe.out.entry)

\* C2 (amended): a request path that no entry equals resolves to the entry
\* of greatest declared-path length among the entries whose path ends with
\* "/" and is a prefix of the request path, the path "/" included, and to
\* no entry when there is none.
C2_LongestPrefix ==
    /\ (Probed /\ ExactEntries(probe.path) = {}) =>
          IF PrefixEntries(probe.path) = {}
          THEN probe.out.entry = Nil
          ELSE Longest(PrefixEntries(probe.path), probe.out.entry)
    /\ ApiScenario

\* C2 witness: two prefix candidates of different lengths, the shorter one
\* first, and the longer one dispatches.
C2_Witness ==
    /\ Probed
    /\ ExactEntries(probe.path) = {}
    /\ probe.out.kind = "proxied"
    /\ \E j \in PrefixEntries(probe.path) :
          j < probe.out.entry /\ Len(Table[j].path) < Len(Table[probe.out.entry].path)

\* The prefix candidates of p of the greatest declared-path length.
LongestPrefixEntries(p) == {i \in PrefixEntries(p) : Longest(PrefixEntries(p), i)}

\* C37: when no entry equals the request path and several prefix candidates
\* have the same greatest declared-path length, the matching algorithm
\* returns the one of them that comes first in table order.
C37_FirstOfEqualPrefixes ==
    (Probed /\ ExactEntries(probe.path) = {} /\ PrefixEntries(probe.path) # {}) =>
        probe.out.entry = SetMin(LongestPrefixEntries(probe.path))

\* C37 witness: the same prefix is declared twice, no entry equals the
\* request path, and the first of the two declarations dispatches.
C37_Witness ==
    /\ Probed
    /\ ExactEntries(probe.path) = {}
    /\ Cardinality(LongestPrefixEntries(probe.path)) > 1
    /\ probe.out.kind = "proxied"
    /\ probe.out.entry = 1
    /\ Table[1].path = Table[2].path

\* C3 as stated: for a request path other than "/", the matching algorithm
\* never returns an entry declared as "/".
C3_RootNeverPrefix ==
    (Probed /\ probe.path # Slash /\ probe.out.entry # Nil) =>
        Table[probe.out.entry].path # Slash

\* C3 (amended): for a request path p other than "/", the matching
\* algorithm returns an entry declared as "/" only as the last resort: when
\* no entry's path equals p and no other entry is a prefix candidate of p.
C3_RootOnlyLastResort ==
    (/\ Probed
     /\ probe.path # Slash
     /\ probe.out.entry # Nil
     /\ Table[probe.out.entry].path = Slash) =>
        /\ ExactEntries(probe.path) = {}
        /\ NonRootPrefixEntries(probe.path) = {}

\* C3 witness: the entry "/" dispatches a request path other than "/".
C3_Witness ==
    /\ Probed
    /\ probe.path # Slash
    /\ probe.out.entry # Nil
    /\ Table[probe.out.entry].path = Slash
    /\ \E j \in 1..Len(Table) : Table[j].path # Slash

RootOnlyConfig ==
    [ErrorPages |-> Nil, TLS |-> NoTLS, Services |-> <<ServiceA>>,
     Routes |-> <<[Path |-> Slash, Service |-> "a"]>>]

\* C4: with the single service a = localhost:9001 and the single route
\* {"/", a}, a request to /x (any path with one leading separator) is
\* dispatched to a and the path forwarded upstream is the request path.
C4_RootRouteForwardsUnchanged ==
    (/\ Probed
     /\ config = RootOnlyConfig
     /\ ~HasPrefix(probe.path, <<"/", "/">>)) =>
        /\ probe.out.kind = "proxied"
        /\ probe.out.service = "a"
        /\ probe.out.origin = <<"localhost", 9001>>
        /\ probe.out.forwarded = probe.path

\* C4 witness: the request /x (here /a) went through the route "/".
C4_Witness ==
    /\ Probed
    /\ config = RootOnlyConfig
    /\ probe.path = PathX
    /\ probe.out.forwarded = PathX

LoginPath == <<"/", "l", "o", "g", "i", "n">>

\* The upstream base paths tried for the director: none, and /a.
Bases == {<<>>, <<"/", "a">>}

\* C5: the path the director forwards upstream is never empty and starts
\* with "/", for every matched route, request path and upstream base path;
\* a request path equal to the route path is forwarded as "/", and
\* stripping /login from /login yields "/".
C5_ForwardedPathRooted ==
    /\ (Probed /\ probe.out.kind = "proxied") =>
          /\ Len(probe.out.forwarded) > 0
          /\ probe.out.forwarded[1] = "/"
          /\ Table[probe.out.entry].path = probe.path => probe.out.forwarded = Slash
          /\ \A base \in Bases :
                LET f == Director(NewProxy([origin |-> 1, base |-> base],
                                           Table[probe.out.entry].path), probe.path)
                IN  Len(f) > 0 /\ f[1] = "/"
    /\ Director(NewProxy([origin |-> 1, base |-> <<>>], LoginPath), LoginPath) = Slash

\* C5 witness: an exact match on a path without trailing separator, whose
\* stripped path is empty before the separator is put back.
C5_Witness ==
    /\ Probed
    /\ probe.out.kind = "proxied"
    /\ Table[probe.out.entry].path = probe.path
    /\ probe.path # Slash
    /\ ~HasSuffix(probe.path, Slash)
    /\ probe.out.forwarded = Slash

----------------------------------------------------------------------------
(* Properties of the load balancer under sequential requests (SpecSeq).    *)

\* The dispatches of the balancer of route m, oldest first.
RouteLog(m) == SelectSeq(served, LAMBDA e : e.route = m)

\* The origins of the declared servers of service name whose URL parses.
RECURSIVE parsedOrigins(_)
parsedOrigins(servers) ==
    IF servers = <<>> THEN <<>>
    ELSE IF Head(servers).parses
         THEN <<Head(servers).origin>> \o parsedOrigins(Tail(servers))
         ELSE parsedOrigins(Tail(servers))

DeclaredOrigins(name) ==
    parsedOrigins(config.Services[serviceIndex(config.Services, name)].Servers)

\* C6: on a freshly built table, request k (from 0) through a LoadBalancer
\* of N backends goes to backend k mod N in declaration order; after a
\* multiple of N requests every backend has received the same number.
C6_RoundRobin ==
    \A m \in 1..Len(Table) :
        Table[m].handler.kind = "lb" =>
            LET log == RouteLog(m)
                backends == Table[m].handler.backends
                N == Len(backends)
                declared == DeclaredOrigins(Table[m].service)
            IN  /\ N = Len(declared)
                /\ \A b \in 1..N : backends[b].target.origin = declared[b]
                /\ \A k \in 1..Len(log) : log[k].backend = ((k - 1) % N) + 1
                /\ Len(log) % N = 0 =>
                      \A b \in 1..N :
                          Cardinality({k \in 1..Len(log) : log[k].backend = b})
                              = Len(log) \div N
                /\ (Probed /\ probe.out.entry = m /\ Len(log) > 0) =>
                      probe.out.origin = declared[((Len(log) - 1) % N) + 1]

\* C6 witness: ten requests in a row through a balancer of two servers.
C6_Witness ==
    /\ Len(Table[1].handler.backends) = 2
    /\ Len(RouteLog(1)) = 10
    /\ \A k \in 1..10 : RouteLog(1)[k].backend = IF k % 2 = 1 THEN 1 ELSE 2

\* C35: each compiled entry on a balanced service has its own rotation,
\* also when two entries name the same service: the counter of an entry
\* counts the dispatches through that entry only, and a dispatch through
\* one entry leaves the counter and the next choice of every other entry
\* unchanged.
C35_RotationPerEntry ==
    /\ [](\A m \in 1..Len(Table) :
              Table[m].handler.kind = "lb" => lbNext[1][m] = Len(RouteLog(m)))
    /\ [][\A m \in 1..Len(Table) :
             (/\ Table[m].handler.kind = "lb"
              /\ Len(served') > Len(served)
              /\ served'[Len(served')].route # m) =>
                 /\ lbNext'[1][m] = lbNext[1][m]
                 /\ lbSelect(Table[m].handler, lbNext'[1][m])
                        = lbSelect(Table[m].handler, lbNext[1][m])]_vars

\* C35 witness: entries 1 and 3 are on the same service of two servers;
\* after two dispatches through entry 1 and one through entry 3 the next
\* choice of entry 1 is the first backend and that of entry 3 the second.
C35_Witness ==
    /\ Table[1].service = Table[3].service
    /\ Len(Table[1].handler.backends) = 2
    /\ Len(RouteLog(1)) = 2
    /\ Len(RouteLog(3)) = 1
    /\ lbSelect(Table[1].handler, lbNext[1][1]) = 1
    /\ lbSelect(Table[3].handler, lbNext[1][3]) = 2

----------------------------------------------------------------------------
(* Properties of the table builder (SpecBuild).                            *)

\* The service name is among the declared services.
Declared(name) == \E k \in 1..Len(config.Services) : config.Services[k].Name = name

\* The declared service can be given a handler: one server URL at least
\* parses, or, without servers, it has a host.
Usable(name) ==
    LET svc == config.Services[serviceIndex(config.Services, name)]
    IN  IF Len(svc.Servers) > 0
        THEN \E k \in 1..Len(svc.Servers) : svc.Servers[k].parses
        ELSE svc.Host \notin {"", BadHost}

\* The declared routes that can be built, in declaration order.
Buildable == SelectSeq(config.Routes, LAMBDA rt : Declared(rt.Service) /\ Usable(rt.Service))

\* C17: newRouter always returns a table: no entry of it names a service
\* that is not declared, and its entries are the buildable routes of the
\* config, one entry each, in the order of their declaration.
C17_UnresolvedRoutesDropped ==
    /\ \A k \in 1..Len(Table) : Declared(Table[k].service)
    /\ Len(Table) = Len(Buildable)
    /\ \A k \in 1..Len(Table) :
          /\ Table[k].path = Buildable[k].Path
          /\ Table[k].service = Buildable[k].Service
          /\ Table[k].handler.kind \in {"proxy", "lb"}

\* C17 witness: a route on an undeclared service stands between two routes
\* that are built, and a request is dispatched by the second of them.
C17_Witness ==
    /\ Len(config.Routes) = 3
    /\ ~Declared(config.Routes[2].Service)
    /\ Len(Table) = 2
    /\ Table[1].path # Table[2].path
    /\ Probed
    /\ probe.out.entry = 2

----------------------------------------------------------------------------
(* The running system: config source, hot reload, concurrent requests.     *)

NumCandidates == 3  \* ./config.yaml, $HOME/.config/clara/config.yaml, /etc/clara/config.yaml

NoFile == [present |-> FALSE, readable |-> FALSE, doc |-> [parse |-> "none"], mtime |-> 0]

\* The pages embedded in the binary under defaults/.
EmbeddedPages == {"welcome.html", "404.html"}

\* defaults/config.default.yaml: the embedded document declares no route.
DefaultDoc ==
    [parse |-> "ok", has |-> {"services", "routes"}, Services |-> <<>>,
     Routes |-> <<>>, ErrorPages |-> <<>>, TLS |-> NoTLS]

\* Adding the keys of a YAML mapping to an existing Go map.
mergeMap(old, new) ==
    [k \in (DOMAIN old) \cup (DOMAIN new) |->
        IF k \in DOMAIN new THEN new[k] ELSE old[k]]

\* yaml.Unmarshal(data, &config) into the package-level config. A document
\* with a syntax error changes nothing. Otherwise every section present is
\* decoded: sequences replace the slice, a mapping is added key by key to
\* the map the field already holds (a new map only when the field is nil),
\* absent sections keep their value; a document with a type error is
\* decoded all the same and the error is returned.
Unmarshal(doc, cfg, hp) ==
    IF doc.parse = "syntax" THEN [err |-> TRUE, config |-> cfg, heap |-> hp]
    ELSE LET ref == IF "error_pages" \in doc.has /\ cfg.ErrorPages = Nil
                    THEN Len(hp) + 1 ELSE cfg.ErrorPages
         IN  [err |-> doc.parse = "type",
              config |-> [ErrorPages |-> ref,
                          TLS |-> IF "tls" \in doc.has THEN doc.TLS ELSE cfg.TLS,
                          Services |-> IF "services" \in doc.has
                                       THEN doc.Services ELSE cfg.Services,
                          Routes |-> IF "routes" \in doc.has
                                     THEN doc.Routes ELSE cfg.Routes],
              heap |-> IF "error_pages" \notin doc.has THEN hp
                       ELSE IF cfg.ErrorPages = Nil THEN Append(hp, doc.ErrorPages)
                       ELSE [hp EXCEPT ![ref] = mergeMap(@, doc.ErrorPages)]]

\* loadAndServeConfig, the read: the first candidate os.ReadFile can read
\* (a file that exists but cannot be read is passed over), the embedded
\* default document when there is none.
foundPath ==
    LET found == {i \in 1..NumCandidates : files[i].present /\ files[i].readable}
    IN  IF found = {} THEN Nil ELSE SetMin(found)

sourceDoc == IF foundPath = Nil THEN DefaultDoc ELSE files[foundPath].doc

\* What loadAndServeConfig has read, noted in the lifecycle record l.
NoteRead(l) ==
    [l EXCEPT !.readPath = foundPath,
              !.readTime = IF foundPath = Nil THEN 0 ELSE files[foundPath].mtime,
              !.readDoc = sourceDoc]

\* The content of the Go map behind reference ref (a nil map has no key).
mapOf(hp, ref) == IF ref = Nil THEN <<>> ELSE hp[ref]

ZeroConfig == [ErrorPages |-> Nil, TLS |-> NoTLS, Services |-> <<>>, Routes |-> <<>>]

\* app.router.Store(app.newRouter(&config)).
Store(cfg, hp) ==
    LET r == newRouter(cfg)
    IN  /\ routers' = Append(routers, r)
        /\ published' = Len(routers) + 1
        /\ lbNext' = Append(lbNext, newCounters(r))
        /\ builtPages' = Append(builtPages, mapOf(hp, r.errorPages))

\* An initial load whose failure is only logged, as a failed reload is.
InitialLoadLogsError ==
    /\ mainPc = "load"
    /\ LET res == Unmarshal(sourceDoc, config, heap)
       IN  /\ config' = res.config
           /\ heap' = res.heap
           /\ IF res.err
              THEN /\ life' = NoteRead(life)
                   /\ UNCHANGED <<routers, published, lbNext, builtPages>>
              ELSE /\ Store(res.config, res.heap)
                   /\ life' = [NoteRead(life) EXCEPT
                                 !.loaded = foundPath,
                                 !.startTLS = Len(res.config.TLS.Domains) > 0]
           /\ mainPc' = "select"
           /\ poller' = [poller EXCEPT !.pc = "start"]
    /\ UNCHANGED <<files, reqs, reloads, writes, listeners>>
    /\ UNCHANGED seqVars

\* main: the initial loadAndServeConfig; a failure is fatal, a success
\* starts the hot-reload goroutine and goes on to the mode selection.
InitialLoad ==
    /\ mainPc = "load"
    /\ LET res == Unmarshal(sourceDoc, config, heap)
       IN  /\ config' = res.config
           /\ heap' = res.heap
           /\ IF res.err
              THEN /\ mainPc' = "exited"
                   /\ life' = [NoteRead(life) EXCEPT !.result = "fatal"]
                   /\ UNCHANGED <<routers, published, lbNext, builtPages, poller>>
              ELSE /\ Store(res.config, res.heap)
                   /\ mainPc' = "select"
                   /\ life' = [NoteRead(life) EXCEPT
                                 !.loaded = foundPath,
                                 !.startTLS = Len(res.config.TLS.Domains) > 0]
                   /\ poller' = [poller EXCEPT !.pc = "start"]
    /\ UNCHANGED <<files, reqs, reloads, writes, listeners>>
    /\ UNCHANGED seqVars

\* A goroutine that goes on to watch ./config.yaml when it found no file.
PollerStartWatchesFirst ==
    /\ mainPc # "exited"
    /\ poller.pc = "start"
    /\ LET found == {i \in 1..NumCandidates : files[i].present}
       IN  IF found = {}
           THEN poller' = [pc |-> "sleep", configPath |-> 1, lastModTime |-> 0,
                           stat |-> 0]
           ELSE poller' = [pc |-> "sleep", configPath |-> SetMin(found),
                           lastModTime |-> files[SetMin(found)].mtime, stat |-> 0]
    /\ UNCHANGED <<config, heap, routers, published, lbNext, files, mainPc,
                   reqs, reloads, builtPages, writes>>
    /\ UNCHANGED <<seqVars, lifeVars>>

\* The hot-reload goroutine resolves the file it will watch.
PollerStart ==
    /\ mainPc # "exited"
    /\ poller.pc = "start"
    /\ LET found == {i \in 1..NumCandidates : files[i].present}
       IN  IF found = {}
           THEN poller' = [poller EXCEPT !.pc = "stopped"]
           ELSE poller' = [pc |-> "sleep", configPath |-> SetMin(found),
                           lastModTime |-> files[SetMin(found)].mtime, stat |-> 0]
    /\ UNCHANGED <<config, heap, routers, published, lbNext, files, mainPc,
                   reqs, reloads, builtPages, writes>>
    /\ UNCHANGED <<seqVars, lifeVars>>

\* A reload that stores the router although the decoding failed.
PollerDetectStoresOnError ==
    /\ mainPc # "exited"
    /\ poller.pc = "sleep"
    /\ files[poller.configPath].present
    /\ files[poller.configPath].mtime # poller.lastModTime
    /\ LET stat == files[poller.configPath].mtime
           res == Unmarshal(sourceDoc, config, heap)
       IN  /\ config' = res.config
           /\ heap' = res.heap
           /\ Store(res.config, res.heap)
           /\ reloads' = Append(reloads, IF res.err THEN "failed" ELSE "ok")
           /\ poller' = [poller EXCEPT !.lastModTime = stat]
    /\ life' = NoteRead(life)
    /\ UNCHANGED <<files, mainPc, reqs, writes, listeners>>
    /\ UNCHANGED seqVars

\* A poller that remembers the modification time of successful reloads only.
PollerDetectKeepsTimeOnError ==
    /\ mainPc # "exited"
    /\ poller.pc = "sleep"
    /\ files[poller.configPath].present
    /\ files[poller.configPath].mtime # poller.lastModTime
    /\ LET stat == files[poller.configPath].mtime
           res == Unmarshal(sourceDoc, config, heap)
       IN  /\ config' = res.config
           /\ heap' = res.heap
           /\ IF res.err
              THEN /\ reloads' = Append(reloads, "failed")
                   /\ poller' = poller
              ELSE /\ reloads' = reloads
                   /\ poller' = [poller EXCEPT !.pc = "store", !.stat = stat]
    /\ life' = NoteRead(life)
    /\ UNCHANGED <<routers, published, lbNext, files, mainPc, reqs, builtPages,
                   writes, listeners>>
    /\ UNCHANGED seqVars

\* One wake-up that sees a changed modification time: loadAndServeConfig
\* reads and decodes the source. A failure is logged and the wake-up ends;
\* on success the router is built and stored by the next step.
PollerDetect ==
    /\ mainPc # "exited"
    /\ poller.pc = "sleep"
    /\ files[poller.configPath].present
    /\ files[poller.configPath].mtime # poller.lastModTime
    /\ LET stat == files[poller.configPath].mtime
           res == Unmarshal(sourceDoc, config, heap)
       IN  /\ config' = res.config
           /\ heap' = res.heap
           /\ IF res.err
              THEN /\ reloads' = Append(reloads, "failed")
                   /\ poller' = [poller EXCEPT !.lastModTime = stat]
              ELSE /\ reloads' = reloads
                   /\ poller' = [poller EXCEPT !.pc = "store", !.stat = stat]
    /\ life' = NoteRead(life)
    /\ UNCHANGED <<routers, published, lbNext, files, mainPc, reqs, builtPages,
                   writes, listeners>>
    /\ UNCHANGED seqVars

PollerStore ==
    /\ mainPc # "exited"
    /\ poller.pc = "store"
    /\ Store(config, heap)
    /\ reloads' = Append(reloads, "ok")
    /\ poller' = [poller EXCEPT !.pc = "sleep", !.lastModTime = poller.stat]
    /\ UNCHANGED <<config, heap, files, mainPc, reqs, writes>>
    /\ UNCHANGED <<seqVars, lifeVars>>

----------------------------------------------------------------------------
(* One request through metricsMiddleware, mainHandler and the router.      *)

Unmatched == "unmatched"

IdleReq ==
    [pc |-> "idle", path |-> <<>>, service |-> Unmatched, routePath |-> <<>>,
     matched |-> FALSE, router |-> Nil, entry |-> Nil, backend |-> Nil,
     forwarded |-> <<>>, statusCode |-> 0, looked |-> "", body |-> "",
     events |-> <<>>, seen |-> 0, holds |-> FALSE, customRead |-> "none",
     ticket |-> -1, mwRouter |-> Nil, written |-> <<>>]

StatusOK == 200
StatusNotFound == 404
StatusInternalServerError == 500
StatusBadGateway == 502
StatusEarlyHints == 103

\* A wrapper that keeps the status code of the first WriteHeader call.
WriteHeaderFirstWins(rw, code) ==
    [rw EXCEPT !.statusCode = IF rw.written = <<>> THEN code ELSE @,
               !.written = Append(@, code)]

\* responseWriter.WriteHeader: the wrapper notes the code of the call and
\* passes it on; written lists the codes of all calls of the request.
WriteHeader(rw, code) ==
    [rw EXCEPT !.statusCode = code, !.written = Append(@, code)]

\* The WriteHeader calls of httputil.ReverseProxy on the wrapper: the status
\* of the upstream response, 502 from the default error handler, and every
\* informational response of the upstream before the final status.
UpstreamWrites(rw, outcome) ==
    IF outcome = "error" THEN WriteHeader(rw, StatusBadGateway)
    ELSE IF outcome = "informational"
    THEN WriteHeader(WriteHeader(rw, StatusEarlyHints), StatusOK)
    ELSE WriteHeader(rw, StatusOK)

\* A listener that accepts requests before the initial load has returned.
ArriveBeforeLoad(i, p) ==
    /\ mainPc \in {"load", "select", "serving"}
    /\ reqs[i].pc = "idle"
    /\ \A j \in 1..(i - 1) : reqs[j].pc # "idle"
    /\ LET m == IF published = Nil THEN Nil
                ELSE findBestMatch(routers[published], p)
       IN  reqs' = [reqs EXCEPT ![i] =
               [IdleReq EXCEPT
                   !.pc = "handler",
                   !.path = p,
                   !.mwRouter = published,
                   !.seen = Len(reloads),
                   !.statusCode = StatusOK,
                   !.matched = (m # Nil),
                   !.service = IF m = Nil THEN Unmatched
                               ELSE routers[published].routes[m].service,
                   !.routePath = IF m = Nil THEN <<>>
                                 ELSE routers[published].routes[m].path]]
    /\ UNCHANGED <<config, heap, routers, published, lbNext, files, mainPc,
                   poller, reloads, builtPages, writes>>
    /\ UNCHANGED <<seqVars, lifeVars>>

\* metricsMiddleware up to next.ServeHTTP: the wrapped writer starts at 200,
\* the labels come from findBestMatch on the router loaded here.
Arrive(i, p) ==
    /\ mainPc = "serving"
    /\ listeners.server = "accepting"
    /\ reqs[i].pc = "idle"
    /\ \A j \in 1..(i - 1) : reqs[j].pc # "idle"
    /\ LET m == IF published = Nil THEN Nil
                ELSE findBestMatch(routers[published], p)
       IN  reqs' = [reqs EXCEPT ![i] =
               [IdleReq EXCEPT
                   !.pc = "handler",
                   !.path = p,
                   !.mwRouter = published,
                   !.seen = Len(reloads),
                   !.statusCode = StatusOK,
                   !.matched = (m # Nil),
                   !.service = IF m = Nil THEN Unmatched
                               ELSE routers[published].routes[m].service,
                   !.routePath = IF m = Nil THEN <<>>
                                 ELSE routers[published].routes[m].path]]
    /\ UNCHANGED <<config, heap, routers, published, lbNext, files, mainPc,
                   poller, reloads, builtPages, writes>>
    /\ UNCHANGED <<seqVars, lifeVars>>

\* A router that serves the welcome document for "/" whatever its table.
HandlerLoadWelcomeAlways(i) ==
    /\ mainPc # "exited"
    /\ reqs[i].pc = "handler"
    /\ LET g == published
           p == reqs[i].path
       IN  IF g = Nil
           THEN reqs' = [reqs EXCEPT ![i].pc = "emit",
                                     ![i] = WriteHeader(@, StatusInternalServerError),
                                     ![i].body = "Service unavailable"]
           ELSE IF p = Slash
           THEN reqs' = [reqs EXCEPT ![i].pc = "emit", ![i].router = g,
                                     ![i] = WriteHeader(@, StatusOK),
                                     ![i].body = "welcome.html"]
           ELSE LET m == findBestMatch(routers[g], p)
                IN  IF m = Nil
                    THEN reqs' = [reqs EXCEPT ![i].pc = "errpage", ![i].router = g]
                    ELSE IF routers[g].routes[m].handler.kind = "lb"
                    THEN reqs' = [reqs EXCEPT ![i].pc = "lb", ![i].router = g,
                                              ![i].entry = m]
                    ELSE reqs' = [reqs EXCEPT ![i].pc = "upstream", ![i].router = g,
                                              ![i].entry = m, ![i].backend = 1]
    /\ UNCHANGED <<config, heap, routers, published, lbNext, files, mainPc,
                   poller, reloads, builtPages, writes>>
    /\ UNCHANGED <<seqVars, lifeVars>>

\* A handler that keeps dispatching on the router stored by the initial load.
HandlerLoadInitialRouter(i) ==
    /\ mainPc # "exited"
    /\ reqs[i].pc = "handler"
    /\ LET g == IF published = Nil THEN Nil ELSE 1
           p == reqs[i].path
       IN  IF g = Nil
           THEN reqs' = [reqs EXCEPT ![i].pc = "emit",
                                     ![i] = WriteHeader(@, StatusInternalServerError),
                                     ![i].body = "Service unavailable"]
           ELSE IF Len(routers[g].routes) = 0 /\ p = Slash
                   /\ "welcome.html" \in EmbeddedPages
           THEN reqs' = [reqs EXCEPT ![i].pc = "emit", ![i].router = g,
                                     ![i] = WriteHeader(@, StatusOK),
                                     ![i].body = "welcome.html"]
           ELSE LET m == findBestMatch(routers[g], p)
                IN  IF m = Nil
                    THEN reqs' = [reqs EXCEPT ![i].pc = "errpage", ![i].router = g]
                    ELSE IF routers[g].routes[m].handler.kind = "lb"
                    THEN reqs' = [reqs EXCEPT ![i].pc = "lb", ![i].router = g,
                                              ![i].entry = m]
                    ELSE reqs' = [reqs EXCEPT ![i].pc = "upstream", ![i].router = g,
                                              ![i].entry = m, ![i].backend = 1]
    /\ UNCHANGED <<config, heap, routers, published, lbNext, files, mainPc,
                   poller, reloads, builtPages, writes>>
    /\ UNCHANGED <<seqVars, lifeVars>>

\* mainHandler loads the router again; Router.ServeHTTP serves the welcome
\* document, finds the entry to dispatch to, or goes on to the 404 page.
HandlerLoad(i) ==
    /\ mainPc # "exited"
    /\ reqs[i].pc = "handler"
    /\ LET g == published
           p == reqs[i].path
       IN  IF g = Nil
           THEN reqs' = [reqs EXCEPT ![i].pc = "emit",
                                     ![i] = WriteHeader(@, StatusInternalServerError),
                                     ![i].body = "Service unavailable"]
           ELSE IF Len(routers[g].routes) = 0 /\ p = Slash
                   /\ "welcome.html" \in EmbeddedPages
           THEN reqs' = [reqs EXCEPT ![i].pc = "emit", ![i].router = g,
                                     ![i] = WriteHeader(@, StatusOK),
                                     ![i].body = "welcome.html"]
           ELSE LET m == findBestMatch(routers[g], p)
                IN  IF m = Nil
                    THEN reqs' = [reqs EXCEPT ![i].pc = "errpage", ![i].router = g]
                    ELSE IF routers[g].routes[m].handler.kind = "lb"
                    THEN reqs' = [reqs EXCEPT ![i].pc = "lb", ![i].router = g,
                                              ![i].entry = m]
                    ELSE reqs' = [reqs EXCEPT ![i].pc = "upstream", ![i].router = g,
                                              ![i].entry = m, ![i].backend = 1]
    /\ UNCHANGED <<config, heap, routers, published, lbNext, files, mainPc,
                   poller, reloads, builtPages, writes>>
    /\ UNCHANGED <<seqVars, lifeVars>>

\* The requests that hold lb.mu of the LoadBalancer of route m of router g.
lbMuHolders(g, m) ==
    {j \in DOMAIN reqs : reqs[j].holds /\ reqs[j].router = g /\ reqs[j].entry = m}

\* A balancer without mutual exclusion: Lock returns at once.
LBLockNoMutex(i) ==
    /\ mainPc # "exited"
    /\ reqs[i].pc = "lb"
    /\ reqs' = [reqs EXCEPT ![i].pc = "locked", ![i].holds = TRUE]
    /\ UNCHANGED <<config, heap, routers, published, lbNext, files, mainPc,
                   poller, reloads, builtPages, writes>>
    /\ UNCHANGED <<seqVars, lifeVars>>

\* LoadBalancer.ServeHTTP: lb.mu.Lock() returns once the mutex is free.
LBLock(i) ==
    /\ mainPc # "exited"
    /\ reqs[i].pc = "lb"
    /\ lbMuHolders(reqs[i].router, reqs[i].entry) = {}
    /\ reqs' = [reqs EXCEPT ![i].pc = "locked", ![i].holds = TRUE]
    /\ UNCHANGED <<config, heap, routers, published, lbNext, files, mainPc,
                   poller, reloads, builtPages, writes>>
    /\ UNCHANGED <<seqVars, lifeVars>>

\* LoadBalancer.ServeHTTP under lb.mu: the read of lb.next and the
\* selection of the backend; ticket is the counter value that was read.
\* An index outside the backend list is a run-time panic: the server
\* recovers it and drops the request, and lb.mu, locked without defer,
\* stays locked.
LBSelect(i) ==
    /\ mainPc # "exited"
    /\ reqs[i].pc = "locked"
    /\ LET g == reqs[i].router
           m == reqs[i].entry
           h == routers[g].routes[m].handler
           b == lbSelect(h, lbNext[g][m])
       IN  IF b \in 1..Len(h.backends)
           THEN reqs' = [reqs EXCEPT ![i].pc = "selected",
                                     ![i].ticket = lbNext[g][m],
                                     ![i].backend = b]
           ELSE reqs' = [reqs EXCEPT ![i].pc = "aborted",
                                     ![i].ticket = lbNext[g][m],
                                     ![i].body = "panic"]
    /\ UNCHANGED <<config, heap, routers, published, lbNext, files, mainPc,
                   poller, reloads, builtPages, writes>>
    /\ UNCHANGED <<seqVars, lifeVars>>

\* A balancer that releases lb.mu only after the upstream call (a deferred
\* Unlock): the increment leaves the mutex held.
LBUnlockKeepsLock(i) ==
    /\ mainPc # "exited"
    /\ reqs[i].pc = "selected"
    /\ reqs' = [reqs EXCEPT ![i].pc = "upstream"]
    /\ lbNext' = [lbNext EXCEPT ![reqs[i].router][reqs[i].entry] = IntIncrement(@)]
    /\ UNCHANGED <<config, heap, routers, published, files, mainPc,
                   poller, reloads, builtPages, writes>>
    /\ UNCHANGED <<seqVars, lifeVars>>

\* LoadBalancer.ServeHTTP: lb.next++ and lb.mu.Unlock(); the upstream call
\* comes next.
LBUnlock(i) ==
    /\ mainPc # "exited"
    /\ reqs[i].pc = "selected"
    /\ reqs' = [reqs EXCEPT ![i].pc = "upstream", ![i].holds = FALSE]
    /\ lbNext' = [lbNext EXCEPT ![reqs[i].router][reqs[i].entry] = IntIncrement(@)]
    /\ UNCHANGED <<config, heap, routers, published, files, mainPc,
                   poller, reloads, builtPages, writes>>
    /\ UNCHANGED <<seqVars, lifeVars>>

\* What the upstream exchange of httputil.ReverseProxy can end in: a
\* response relayed to the end, the default ErrorHandler's 502 when the
\* round trip fails, or panic(http.ErrAbortHandler) when copying the body
\* fails after the header was written (the server recovers the panic).
UpstreamOutcomes == {"response", "error", "abort"}

\* A balancer that passes over the next backend after a failed call.
UpstreamErrorAdvancesRotation(i, outcome) ==
    /\ mainPc # "exited"
    /\ reqs[i].pc = "upstream"
    /\ LET g == reqs[i].router
           h == routers[g].routes[reqs[i].entry].handler
           proxy == IF h.kind = "lb" THEN h.backends[reqs[i].backend] ELSE h
       IN  /\ reqs' = [reqs EXCEPT
                  ![i].forwarded = Director(proxy, reqs[i].path),
                  ![i] = UpstreamWrites(@, outcome),
                  ![i].body = outcome,
                  ![i].pc = IF outcome = "abort" THEN "aborted" ELSE "emit"]
           /\ lbNext' = IF outcome = "error" /\ h.kind = "lb"
                        THEN [lbNext EXCEPT ![g][reqs[i].entry] = IntIncrement(@)]
                        ELSE lbNext
    /\ UNCHANGED <<config, heap, routers, published, files, mainPc,
                   poller, reloads, builtPages, writes>>
    /\ UNCHANGED <<seqVars, lifeVars>>

\* backend.ServeHTTP(w, r): the director rewrites the path, the upstream
\* exchange writes the status on the wrapped writer.
Upstream(i, outcome) ==
    /\ mainPc # "exited"
    /\ reqs[i].pc = "upstream"
    /\ LET g == reqs[i].router
           h == routers[g].routes[reqs[i].entry].handler
           proxy == IF h.kind = "lb" THEN h.backends[reqs[i].backend] ELSE h
       IN  reqs' = [reqs EXCEPT
               ![i].forwarded = Director(proxy, reqs[i].path),
               ![i] = UpstreamWrites(@, outcome),
               ![i].body = outcome,
               ![i].pc = IF outcome = "abort" THEN "aborted" ELSE "emit"]
    /\ UNCHANGED <<config, heap, routers, published, lbNext, files, mainPc,
                   poller, reloads, builtPages, writes>>
    /\ UNCHANGED <<seqVars, lifeVars>>

\* defaults/<code>.html, the name of the embedded page of a status code.
defaultPagePath(statusCode) == ToString(statusCode) \o ".html"

\* http.StatusText.
StatusText(statusCode) ==
    IF statusCode = StatusNotFound THEN "Not Found"
    ELSE IF statusCode = StatusInternalServerError THEN "Internal Server Error"
    ELSE IF statusCode = StatusBadGateway THEN "Bad Gateway"
    ELSE ""

\* An error page that goes from an unreadable custom page to the status text.
errorPageBodySkipsEmbedded(pages, statusCode, readable) ==
    IF statusCode \in DOMAIN pages /\ readable THEN pages[statusCode]
    ELSE IF statusCode \notin DOMAIN pages /\ defaultPagePath(statusCode) \in EmbeddedPages
    THEN defaultPagePath(statusCode)
    ELSE StatusText(statusCode)

\* The body Router.serveErrorPage writes: the custom page of the map if its
\* file can be read, else the embedded page of the status code if there is
\* one, else the status text.
errorPageBody(pages, statusCode, readable) ==
    IF statusCode \in DOMAIN pages /\ readable THEN pages[statusCode]
    ELSE IF defaultPagePath(statusCode) \in EmbeddedPages THEN defaultPagePath(statusCode)
    ELSE StatusText(statusCode)

\* Router.serveErrorPage(w, req, 404) on the router the request loaded; the
\* custom page file is read at this moment.
serveErrorPage(i, readable) ==
    /\ mainPc # "exited"
    /\ reqs[i].pc = "errpage"
    /\ LET pages == mapOf(heap, routers[reqs[i].router].errorPages)
           exists == StatusNotFound \in DOMAIN pages
           pagePath == IF exists THEN pages[StatusNotFound] ELSE ""
       IN  reqs' = [reqs EXCEPT
               ![i].pc = "emit",
               ![i] = WriteHeader(@, StatusNotFound),
               ![i].looked = pagePath,
               ![i].customRead = IF ~exists THEN "none"
                                 ELSE IF readable THEN "ok" ELSE "failed",
               ![i].body = errorPageBody(pages, StatusNotFound, readable)]
    /\ UNCHANGED <<config, heap, routers, published, lbNext, files, mainPc,
                   poller, reloads, builtPages, writes>>
    /\ UNCHANGED <<seqVars, lifeVars>>

\* metricsMiddleware after next.ServeHTTP returned: one duration
\* observation, one counter increment.
EmitEvents(r) ==
    <<[kind |-> "observe", service |-> r.service, path |-> r.routePath],
      [kind |-> "inc", service |-> r.service, path |-> r.routePath,
       code |-> r.statusCode]>>

Emit(i) ==
    /\ mainPc # "exited"
    /\ reqs[i].pc = "emit"
    /\ reqs' = [reqs EXCEPT ![i].pc = "done",
                            ![i].events = @ \o EmitEvents(reqs[i])]
    /\ UNCHANGED <<config, heap, routers, published, lbNext, files, mainPc,
                   poller, reloads, builtPages, writes>>
    /\ UNCHANGED <<seqVars, lifeVars>>

----------------------------------------------------------------------------
(* main after the initial load: listener mode, termination signal, drain.  *)

\* main reads the package-level config and starts the listeners of the
\* mode: ":443" and the ACME listener on ":80" when TLS domains are
\* configured, the plain listener on ":80" otherwise.
SelectMode ==
    /\ mainPc = "select"
    /\ IF Len(config.TLS.Domains) > 0
       THEN /\ listeners' = HTTPSListeners
            /\ life' = [life EXCEPT !.mode = "https"]
       ELSE /\ listeners' = PlainListeners
            /\ life' = [life EXCEPT !.mode = "plain"]
    /\ mainPc' = "serving"
    /\ UNCHANGED <<config, heap, routers, published, lbNext, files, poller,
                   reqs, reloads, builtPages, writes>>
    /\ UNCHANGED seqVars

\* The requests a listener has accepted and not yet finished.
InFlight == {i \in DOMAIN reqs : reqs[i].pc \notin {"idle", "done", "aborted"}}

\* <-stop, then server.Shutdown(ctx) with the 10-second context: the
\* listener of server is closed, the drain of its connections begins.
ShutdownBegin ==
    /\ mainPc = "serving"
    /\ mainPc' = "draining"
    /\ listeners' = [listeners EXCEPT !.server = "closed"]
    /\ UNCHANGED <<config, heap, routers, published, lbNext, files, poller,
                   reqs, reloads, builtPages, writes, life>>
    /\ UNCHANGED seqVars

\* A shutdown that logs the final message whatever server.Shutdown returned.
ShutdownTimeoutLogsFinal ==
    /\ mainPc = "draining"
    /\ InFlight # {}
    /\ mainPc' = "exited"
    /\ life' = [life EXCEPT !.result = "failed", !.finalLogged = TRUE,
                            !.inflight = Cardinality(InFlight)]
    /\ UNCHANGED <<config, heap, routers, published, lbNext, files, poller,
                   reqs, reloads, builtPages, writes, listeners>>
    /\ UNCHANGED seqVars

\* server.Shutdown returns nil once every connection is idle: the final
\* message is logged and main returns.
ShutdownClean ==
    /\ mainPc = "draining"
    /\ InFlight = {}
    /\ mainPc' = "exited"
    /\ life' = [life EXCEPT !.result = "clean", !.finalLogged = TRUE]
    /\ UNCHANGED <<config, heap, routers, published, lbNext, files, poller,
                   reqs, reloads, builtPages, writes, listeners>>
    /\ UNCHANGED seqVars

\* The context expires while a request is still in flight: server.Shutdown
\* returns the context's error and log.Fatalf ends the process.
ShutdownTimeout ==
    /\ mainPc = "draining"
    /\ InFlight # {}
    /\ mainPc' = "exited"
    /\ life' = [life EXCEPT !.result = "failed", !.inflight = Cardinality(InFlight)]
    /\ UNCHANGED <<config, heap, routers, published, lbNext, files, poller,
                   reqs, reloads, builtPages, writes, listeners>>
    /\ UNCHANGED seqVars

\* An ACME listener whose failure ends the process, as the failure of the
\* TLS listener does.
AcmeFailFatal ==
    /\ mainPc \in {"serving", "draining"}
    /\ listeners.acme = "accepting"
    /\ listeners' = [listeners EXCEPT !.acme = "failed"]
    /\ mainPc' = "exited"
    /\ life' = [life EXCEPT !.result = "fatal"]
    /\ UNCHANGED <<config, heap, routers, published, lbNext, files, poller,
                   reqs, reloads, builtPages, writes>>
    /\ UNCHANGED seqVars

\* The goroutine of the ACME listener: http.ListenAndServe(":80", ...)
\* returns an error (the port cannot be bound, or the listener breaks
\* later); the error is logged with log.Printf and the goroutine ends.
AcmeFail ==
    /\ mainPc \in {"serving", "draining"}
    /\ listeners.acme = "accepting"
    /\ listeners' = [listeners EXCEPT !.acme = "failed"]
    /\ UNCHANGED <<config, heap, routers, published, lbNext, files, mainPc,
                   poller, reqs, reloads, builtPages, writes, life>>
    /\ UNCHANGED seqVars

\* A metrics goroutine that only logs the failure of its listener.
MetricsFailLogsOnly ==
    /\ mainPc \in {"select", "serving", "draining"}
    /\ ~life.metricsFailed
    /\ life' = [life EXCEPT !.metricsFailed = TRUE]
    /\ UNCHANGED <<config, heap, routers, published, lbNext, files, mainPc,
                   poller, reqs, reloads, builtPages, writes, listeners>>
    /\ UNCHANGED seqVars

\* The goroutine of the metrics server: http.ListenAndServe(":9091", ...)
\* returns an error and log.Fatalf ends the process, whatever main and the
\* proxy listeners are doing.
MetricsFail ==
    /\ mainPc \in {"select", "serving", "draining"}
    /\ ~life.metricsFailed
    /\ life' = [life EXCEPT !.metricsFailed = TRUE, !.result = "fatal"]
    /\ mainPc' = "exited"
    /\ UNCHANGED <<config, heap, routers, published, lbNext, files,
                   poller, reqs, reloads, builtPages, writes, listeners>>
    /\ UNCHANGED seqVars

----------------------------------------------------------------------------
(* The documents the environment writes to the config source.              *)

Pages1 == (StatusNotFound :> "custom-1.html")
Pages2 == (StatusNotFound :> "custom-2.html")

MainServices == <<ServiceA, ServiceLB(ServerList(2, FALSE))>>

RoutesApi == <<[Path |-> PathApi, Service |-> "lb"]>>
RoutesLogin == <<[Path |-> PathLogin, Service |-> "a"]>>

\* A route on a service that no document declares.
RoutesGhost == <<[Path |-> PathApi, Service |-> "ghost"]>>

TLSOne == [Email |-> "ops", Domains |-> <<"d1">>]
TLSTwo == [Email |-> "ops", Domains |-> <<"d1", "d2">>]

Doc(parse, routes, pages, tls) ==
    [parse |-> parse,
     has |-> {"services"} \cup (IF routes = <<>> THEN {} ELSE {"routes"})
                          \cup (IF pages = <<>> THEN {} ELSE {"error_pages"})
                          \cup (IF tls = NoTLS THEN {} ELSE {"tls"}),
     Services |-> MainServices, Routes |-> routes, ErrorPages |-> pages,
     TLS |-> tls]

SyntaxErrorDoc ==
    [parse |-> "syntax", has |-> {}, Services |-> <<>>, Routes |-> <<>>,
     ErrorPages |-> <<>>, TLS |-> NoTLS]

\* The contents a document gives to its routes, error_pages and tls
\* sections; the empty value stands for a section that is left out.
Sections ==
    {<<RoutesApi, Pages1, NoTLS>>, <<RoutesLogin, Pages2, TLSOne>>,
     <<RoutesGhost, Pages1, TLSTwo>>, <<<<>>, <<>>, NoTLS>>}

\* Documents that parse, with or without a type error in one scalar, and a
\* document that does not parse at all.
Docs ==
    {Doc(parse, sec[1], sec[2], sec[3]) : parse \in {"ok", "type"}, sec \in Sections}
    \cup {SyntaxErrorDoc}

MainPaths == {PathPing, PathLogin, Slash}

\* The environment rewrites the watched file.
WriteConfig(doc) ==
    /\ mainPc \in {"select", "serving"}
    /\ writes < MaxWrites
    /\ writes' = writes + 1
    /\ files' = [files EXCEPT ![1] = [present |-> TRUE, readable |-> TRUE,
                                      doc |-> doc, mtime |-> @.mtime + 1]]
    /\ UNCHANGED <<config, heap, routers, published, lbNext, mainPc,
                   poller, reqs, reloads, builtPages>>
    /\ UNCHANGED <<seqVars, lifeVars>>

Init ==
    /\ config = ZeroConfig
    /\ heap = <<>>
    /\ routers = <<>>
    /\ published = Nil
    /\ lbNext = <<>>
    /\ probe = NoProbe
    /\ served = <<>>
    /\ \E doc \in Docs :
          files = [i \in 1..NumCandidates |->
                      IF i = 1 THEN [present |-> TRUE, readable |-> TRUE,
                                     doc |-> doc, mtime |-> 1]
                      ELSE NoFile]
    /\ mainPc = "load"
    /\ poller = [pc |-> "idle", configPath |-> Nil, lastModTime |-> 0, stat |-> 0]
    /\ reqs = [i \in 1..MaxRequests |-> IdleReq]
    /\ reloads = <<>>
    /\ builtPages = <<>>
    /\ writes = 0
    /\ listeners = NoListeners
    /\ life = NewLife

Next ==
    \/ InitialLoad
    \/ PollerStart
    \/ PollerDetect
    \/ PollerStore
    \/ SelectMode
    \/ ShutdownBegin
    \/ ShutdownClean
    \/ ShutdownTimeout
    \/ \E doc \in Docs : WriteConfig(doc)
    \/ \E i \in 1..MaxRequests, p \in MainPaths : Arrive(i, p)
    \/ \E i \in 1..MaxRequests : HandlerLoad(i)
    \/ \E i \in 1..MaxRequests : LBLock(i)
    \/ \E i \in 1..MaxRequests : LBSelect(i)
    \/ \E i \in 1..MaxRequests : LBUnlock(i)
    \/ \E i \in 1..MaxRequests, outcome \in UpstreamOutcomes : Upstream(i, outcome)
    \/ \E i \in 1..MaxRequests, readable \in BOOLEAN : serveErrorPage(i, readable)
    \/ \E i \in 1..MaxRequests : Emit(i)

Spec == Init /\ [][Next]_vars

\* The same system with a single request goroutine.
NextReload ==
    \/ InitialLoad
    \/ PollerStart
    \/ PollerDetect
    \/ PollerStore
    \/ SelectMode
    \/ \E doc \in Docs : WriteConfig(doc)
    \/ \E p \in MainPaths : Arrive(1, p)
    \/ HandlerLoad(1)
    \/ LBLock(1)
    \/ LBSelect(1)
    \/ LBUnlock(1)
    \/ \E outcome \in UpstreamOutcomes : Upstream(1, outcome)
    \/ \E readable \in BOOLEAN : serveErrorPage(1, readable)
    \/ Emit(1)

SpecReload == Init /\ [][NextReload]_vars

\* Requests on the table of the initial load, with an upstream that may
\* send an informational response before its final one.
NextStatus ==
    \/ InitialLoad
    \/ SelectMode
    \/ \E i \in 1..MaxRequests, p \in MainPaths : Arrive(i, p)
    \/ \E i \in 1..MaxRequests : HandlerLoad(i)
    \/ \E i \in 1..MaxRequests : LBLock(i)
    \/ \E i \in 1..MaxRequests : LBSelect(i)
    \/ \E i \in 1..MaxRequests : LBUnlock(i)
    \/ \E i \in 1..MaxRequests, outcome \in UpstreamOutcomes \cup {"informational"} :
           Upstream(i, outcome)
    \/ \E i \in 1..MaxRequests, readable \in BOOLEAN : serveErrorPage(i, readable)
    \/ \E i \in 1..MaxRequests : Emit(i)

SpecStatus == Init /\ [][NextStatus]_vars

\* The same with a hot-reload goroutine that keeps running: it gets
\* scheduled, and every sleep ends.
SpecPoll ==
    /\ Init
    /\ [][NextReload]_vars
    /\ WF_vars(PollerStart)
    /\ WF_vars(PollerDetect)
    /\ WF_vars(PollerStore)

\* A candidate that exists (os.Stat succeeds) and that os.ReadFile cannot
\* read: a file without read permission, or a directory of that name.
UnreadableFile ==
    [present |-> TRUE, readable |-> FALSE, doc |-> [parse |-> "none"], mtime |-> 1]

ReadableFile(doc) == [present |-> TRUE, readable |-> TRUE, doc |-> doc, mtime |-> 1]

\* What the process can find at each candidate location when it starts.
FileStates == {NoFile, UnreadableFile} \cup {ReadableFile(doc) : doc \in Docs}

\* The start of the process over every combination of candidate files.
InitStart ==
    /\ config = ZeroConfig
    /\ heap = <<>>
    /\ routers = <<>>
    /\ published = Nil
    /\ lbNext = <<>>
    /\ probe = NoProbe
    /\ served = <<>>
    /\ files \in [1..NumCandidates -> FileStates]
    /\ mainPc = "load"
    /\ poller = [pc |-> "idle", configPath |-> Nil, lastModTime |-> 0, stat |-> 0]
    /\ reqs = [i \in 1..MaxRequests |-> IdleReq]
    /\ reloads = <<>>
    /\ builtPages = <<>>
    /\ writes = 0
    /\ listeners = NoListeners
    /\ life = NewLife

NextStart ==
    \/ InitialLoad
    \/ PollerStart
    \/ SelectMode

SpecStart == InitStart /\ [][NextStart]_vars

\* The config source while the process runs: candidate files appear, are
\* rewritten and change their read permission.
SourceDocs ==
    {Doc("ok", RoutesApi, Pages1, NoTLS), Doc("ok", RoutesLogin, Pages2, NoTLS)}

\* A candidate is absent, or holds a document and can or cannot be read.
SourceStates ==
    {NoFile} \cup {[ReadableFile(doc) EXCEPT !.readable = r] :
                      doc \in SourceDocs, r \in BOOLEAN}

InitSource ==
    /\ config = ZeroConfig
    /\ heap = <<>>
    /\ routers = <<>>
    /\ published = Nil
    /\ lbNext = <<>>
    /\ probe = NoProbe
    /\ served = <<>>
    /\ files \in [1..NumCandidates -> SourceStates]
    /\ mainPc = "load"
    /\ poller = [pc |-> "idle", configPath |-> Nil, lastModTime |-> 0, stat |-> 0]
    /\ reqs = [i \in 1..MaxRequests |-> IdleReq]
    /\ reloads = <<>>
    /\ builtPages = <<>>
    /\ writes = 0
    /\ listeners = NoListeners
    /\ life = NewLife

\* The environment creates candidate k.
CreateFile(k, doc) ==
    /\ mainPc \in {"select", "serving"}
    /\ writes < MaxSourceOps
    /\ ~files[k].present
    /\ writes' = writes + 1
    /\ files' = [files EXCEPT ![k] = ReadableFile(doc)]
    /\ UNCHANGED <<config, heap, routers, published, lbNext, mainPc,
                   poller, reqs, reloads, builtPages>>
    /\ UNCHANGED <<seqVars, lifeVars>>

\* The environment rewrites candidate k: new content, new modification time.
RewriteFile(k, doc) ==
    /\ mainPc \in {"select", "serving"}
    /\ writes < MaxSourceOps
    /\ files[k].present
    /\ writes' = writes + 1
    /\ files' = [files EXCEPT ![k].doc = doc, ![k].mtime = @ + 1]
    /\ UNCHANGED <<config, heap, routers, published, lbNext, mainPc,
                   poller, reqs, reloads, builtPages>>
    /\ UNCHANGED <<seqVars, lifeVars>>

\* The environment changes the read permission of candidate k; the
\* modification time stays.
Chmod(k) ==
    /\ mainPc \in {"select", "serving"}
    /\ files[k].present
    /\ files' = [files EXCEPT ![k].readable = ~@]
    /\ UNCHANGED <<config, heap, routers, published, lbNext, mainPc,
                   poller, reqs, reloads, builtPages, writes>>
    /\ UNCHANGED <<seqVars, lifeVars>>

NextSource ==
    \/ InitialLoad
    \/ PollerStart
    \/ PollerDetect
    \/ PollerStore
    \/ SelectMode
    \/ \E k \in 1..NumCandidates, doc \in SourceDocs : CreateFile(k, doc)
    \/ \E k \in 1..NumCandidates, doc \in SourceDocs : RewriteFile(k, doc)
    \/ \E k \in 1..NumCandidates : Chmod(k)

SpecSource == InitSource /\ [][NextSource]_vars

\* The watched file rewritten several times, with documents that load and
\* documents that do not.
RetryDocs ==
    {Doc("ok", RoutesApi, Pages1, NoTLS), Doc("ok", RoutesLogin, Pages2, NoTLS),
     Doc("type", RoutesLogin, Pages2, NoTLS), SyntaxErrorDoc}

InitRetry ==
    /\ config = ZeroConfig
    /\ heap = <<>>
    /\ routers = <<>>
    /\ published = Nil
    /\ lbNext = <<>>
    /\ probe = NoProbe
    /\ served = <<>>
    /\ files = [i \in 1..NumCandidates |->
                   IF i = 1 THEN ReadableFile(Doc("ok", RoutesApi, Pages1, NoTLS))
                   ELSE NoFile]
    /\ mainPc = "load"
    /\ poller = [pc |-> "idle", configPath |-> Nil, lastModTime |-> 0, stat |-> 0]
    /\ reqs = [i \in 1..MaxRequests |-> IdleReq]
    /\ reloads = <<>>
    /\ builtPages = <<>>
    /\ writes = 0
    /\ listeners = NoListeners
    /\ life = NewLife

NextRetry ==
    \/ InitialLoad
    \/ PollerStart
    \/ PollerDetect
    \/ PollerStore
    \/ SelectMode
    \/ \E doc \in RetryDocs : RewriteFile(1, doc)

SpecRetry == InitRetry /\ [][NextRetry]_vars

\* Concurrent requests on one published table with two routes on a
\* balanced service: no reload, no shutdown.
LBConfig(n) ==
    [ErrorPages |-> Nil, TLS |-> NoTLS,
     Services |-> <<ServiceA, ServiceLB(ServerList(n, FALSE))>>,
     Routes |-> SeqRoutes]

InitLB ==
    \E n \in {2, MaxBackends} :
        /\ config = LBConfig(n)
        /\ heap = <<>>
        /\ routers = <<newRouter(LBConfig(n))>>
        /\ published = 1
        /\ lbNext = <<newCounters(newRouter(LBConfig(n)))>>
        /\ probe = NoProbe
        /\ served = <<>>
        /\ files = [i \in 1..NumCandidates |-> NoFile]
        /\ mainPc = "serving"
        /\ poller = [pc |-> "stopped", configPath |-> Nil, lastModTime |-> 0, stat |-> 0]
        /\ reqs = [i \in 1..MaxLBRequests |-> IdleReq]
        /\ reloads = <<>>
        /\ builtPages = <<<<>>>>
        /\ writes = 0
        /\ listeners = PlainListeners
        /\ life = [NewLife EXCEPT !.mode = "plain", !.loaded = 0]

\* The same table after so many dispatches that the counters of its
\* balancers are about to pass the largest int.
InitWrap ==
    \E n \in {2, MaxBackends}, c \in {MaxInt - 1, MaxInt} :
        /\ config = LBConfig(n)
        /\ heap = <<>>
        /\ routers = <<newRouter(LBConfig(n))>>
        /\ published = 1
        /\ lbNext = <<[m \in 1..Len(newRouter(LBConfig(n)).routes) |-> c]>>
        /\ probe = NoProbe
        /\ served = <<>>
        /\ files = [i \in 1..NumCandidates |-> NoFile]
        /\ mainPc = "serving"
        /\ poller = [pc |-> "stopped", configPath |-> Nil, lastModTime |-> 0, stat |-> 0]
        /\ reqs = [i \in 1..MaxLBRequests |-> IdleReq]
        /\ reloads = <<>>
        /\ builtPages = <<<<>>>>
        /\ writes = 0
        /\ listeners = PlainListeners
        /\ life = [NewLife EXCEPT !.mode = "plain", !.loaded = 0]

\* Request paths of the two balanced routes /a/ and /.
LBPaths == {PathPing, Slash}

NextLB ==
    \/ \E i \in 1..MaxLBRequests, p \in LBPaths : Arrive(i, p)
    \/ \E i \in 1..MaxLBRequests : HandlerLoad(i)
    \/ \E i \in 1..MaxLBRequests : LBLock(i)
    \/ \E i \in 1..MaxLBRequests : LBSelect(i)
    \/ \E i \in 1..MaxLBRequests : LBUnlock(i)
    \/ \E i \in 1..MaxLBRequests, outcome \in UpstreamOutcomes : Upstream(i, outcome)
    \/ \E i \in 1..MaxLBRequests : Emit(i)

SpecLB == InitLB /\ [][NextLB]_vars

SpecWrap == InitWrap /\ [][NextLB]_vars

\* The system while the config source is left alone: concurrent requests,
\* the termination signal and the drain.
NextServe ==
    \/ InitialLoad
    \/ PollerStart
    \/ SelectMode
    \/ ShutdownBegin
    \/ ShutdownClean
    \/ ShutdownTimeout
    \/ \E i \in 1..MaxRequests, p \in MainPaths : Arrive(i, p)
    \/ \E i \in 1..MaxRequests : HandlerLoad(i)
    \/ \E i \in 1..MaxRequests : LBLock(i)
    \/ \E i \in 1..MaxRequests : LBSelect(i)
    \/ \E i \in 1..MaxRequests : LBUnlock(i)
    \/ \E i \in 1..MaxRequests, outcome \in UpstreamOutcomes : Upstream(i, outcome)
    \/ \E i \in 1..MaxRequests, readable \in BOOLEAN : serveErrorPage(i, readable)
    \/ \E i \in 1..MaxRequests : Emit(i)

SpecServe == Init /\ [][NextServe]_vars

\* The same with listeners that can fail: the ACME listener of
\* automatic-HTTPS mode and the metrics listener.
NextListen ==
    \/ InitialLoad
    \/ PollerStart
    \/ SelectMode
    \/ ShutdownBegin
    \/ ShutdownClean
    \/ ShutdownTimeout
    \/ AcmeFail
    \/ MetricsFail
    \/ \E i \in 1..MaxRequests, p \in MainPaths : Arrive(i, p)
    \/ \E i \in 1..MaxRequests : HandlerLoad(i)
    \/ \E i \in 1..MaxRequests : LBLock(i)
    \/ \E i \in 1..MaxRequests : LBSelect(i)
    \/ \E i \in 1..MaxRequests : LBUnlock(i)
    \/ \E i \in 1..MaxRequests, outcome \in UpstreamOutcomes : Upstream(i, outcome)
    \/ \E i \in 1..MaxRequests, readable \in BOOLEAN : serveErrorPage(i, readable)
    \/ \E i \in 1..MaxRequests : Emit(i)

SpecListen == Init /\ [][NextListen]_vars

\* The same with the progress server.Shutdown guarantees: it returns when
\* the connections are idle, and the 10-second context always expires.
\* Nothing is assumed of the requests: an upstream may hang for ever.
SpecDrain ==
    /\ Init
    /\ [][NextServe]_vars
    /\ WF_vars(ShutdownClean)
    /\ WF_vars(ShutdownTimeout)

----------------------------------------------------------------------------
(* Properties of the running system (Spec, SpecReload).                    *)

Requests == DOMAIN reqs

\* The 404 page path a map content gives, "" when it has no entry for 404.
PageOf(pages) ==
    IF StatusNotFound \in DOMAIN pages THEN pages[StatusNotFound] ELSE ""

\* C7 as stated: a request that resolves its 404 on the router it loaded
\* uses the error-page map of that router's generation, that is, the map
\* content the router was built with.
C7_OneGenerationPerRequest ==
    \A i \in Requests :
        (reqs[i].pc \in {"emit", "done"} /\ reqs[i].statusCode = StatusNotFound) =>
            reqs[i].looked = PageOf(builtPages[reqs[i].router])

\* C8 as stated: the error-page map (and the entries) of every router
\* built so far is what it was when the router was built.
C8_PublishedTableImmutable ==
    \A g \in 1..Len(routers) :
        mapOf(heap, routers[g].errorPages) = builtPages[g]

OkReloads == Cardinality({k \in 1..Len(reloads) : reloads[k] = "ok"})

\* C9: a reload that fails publishes nothing: the published router is the
\* one stored by the initial load or by the last successful reload, and a
\* request that arrives after a failed attempt is matched and dispatched
\* by that router, as it was before the source was rewritten.
C9_FailedReloadKeepsTable ==
    mainPc = "serving" =>
        /\ Len(routers) = 1 + OkReloads
        /\ published = Len(routers)
        /\ \A i \in Requests :
              (reqs[i].pc # "idle" /\ reqs[i].router # Nil) =>
                  /\ reqs[i].router <= published
                  /\ (reqs[i].seen = Len(reloads)) => reqs[i].router = published
                  /\ reqs[i].entry # Nil =>
                        reqs[i].entry = findBestMatch(routers[reqs[i].router], reqs[i].path)

\* C9 witness: the source holds a malformed document, its reload failed,
\* and a request that arrived afterwards was served by the old route.
C9_Witness ==
    /\ reloads = <<"failed">>
    /\ files[1].doc.parse \in {"syntax", "type"}
    /\ \E i \in Requests :
          /\ reqs[i].pc = "done"
          /\ reqs[i].seen = 1
          /\ reqs[i].router = 1
          /\ reqs[i].entry # Nil
          /\ reqs[i].body = "response"

\* C10 as stated: every request that went through metricsMiddleware has
\* produced exactly one counter increment and one duration observation.
C10_OnePairPerRequest ==
    \A i \in Requests :
        LET incs == Cardinality({k \in 1..Len(reqs[i].events) : reqs[i].events[k].kind = "inc"})
            obs == Cardinality({k \in 1..Len(reqs[i].events) : reqs[i].events[k].kind = "observe"})
        IN  /\ incs <= 1
            /\ obs <= 1
            /\ reqs[i].pc \in {"done", "aborted"} => (incs = 1 /\ obs = 1)

\* C11 as stated: the (service, path) labels a request emits are those of
\* the route entry that dispatched it, and are the "unmatched" sentinel
\* exactly when no entry dispatched it, also when a reload publishes a new
\* table between the middleware's load and the handler's load.
C11_LabelsIdentifyDispatcher ==
    \A i \in Requests :
        reqs[i].pc = "done" =>
            IF reqs[i].entry # Nil
            THEN LET e == routers[reqs[i].router].routes[reqs[i].entry]
                 IN  /\ reqs[i].matched
                     /\ reqs[i].service = e.service
                     /\ reqs[i].routePath = e.path
            ELSE /\ ~reqs[i].matched
                 /\ reqs[i].service = Unmatched

\* The listeners of a mode that are running in the current state of main.
ModeListeners(mode) == IF mode = "https" THEN HTTPSListeners ELSE PlainListeners

\* C12 as stated: the listener mode is the one the initially loaded config
\* asks for (automatic HTTPS exactly when it has TLS domains), and while
\* main serves, whatever reloads have happened, the running listeners are
\* those of that mode.
C12_ModeFromInitialLoad ==
    life.mode # "none" =>
        /\ life.mode = (IF life.startTLS THEN "https" ELSE "plain")
        /\ mainPc = "serving" => listeners = ModeListeners(life.mode)

\* The listeners main has started.
ActiveListeners == {l \in DOMAIN listeners : listeners[l] # "off"}

\* C13 as stated: once the termination signal has started the drain, every
\* listener that was active has stopped accepting connections: the one
\* listener of plain mode, and both the ACME listener and the TLS listener
\* of automatic-HTTPS mode.
C13_DrainEveryActiveListener ==
    mainPc = "draining" =>
        \A l \in ActiveListeners : listeners[l] = "closed"

\* C14: after the termination signal the process always terminates. When
\* no request is in flight at the end of the drain the shutdown is clean
\* and the final message is logged; when the deadline ends the drain with
\* a request still in flight the shutdown is reported as a failure, the
\* final message is not logged, and the process exits all the same.
C14_ShutdownTerminates ==
    /\ (mainPc = "draining") ~> (mainPc = "exited")
    /\ [][(mainPc = "draining" /\ mainPc' = "exited") =>
              life'.result = (IF InFlight = {} THEN "clean" ELSE "failed")]_vars
    /\ []((mainPc = "exited" /\ life.result = "clean") =>
              (life.finalLogged /\ life.inflight = 0))
    /\ []((mainPc = "exited" /\ life.result = "failed") =>
              (~life.finalLogged /\ life.inflight > 0))

\* C14 witness: the deadline ended a drain with a request still in flight.
C14_Witness ==
    /\ mainPc = "exited"
    /\ life.result = "failed"
    /\ ~life.finalLogged
    /\ \E i \in Requests : reqs[i].pc = "upstream"

\* The candidates that exist, in priority order.
Existing == {i \in 1..NumCandidates : files[i].present}

\* C15 as stated: the initial load reads the first candidate that exists,
\* in the order ./config.yaml, ~/.config/clara/config.yaml,
\* /etc/clara/config.yaml, and the embedded default document only when no
\* candidate exists.
C15_FirstExistingCandidate ==
    life.loaded # -1 =>
        life.loaded = (IF Existing = {} THEN Nil ELSE SetMin(Existing))

Answered == {i \in Requests : reqs[i].pc \in {"emit", "done"} /\ reqs[i].router # Nil}

\* C18: on a table without entries, because the config declares no route
\* or because every declared route was dropped, a request to exactly "/"
\* gets the embedded welcome document with status 200 (and any other path
\* does not); on a table with entries no request gets the welcome document.
C18_WelcomeOnlyOnEmptyTable ==
    \A i \in Answered :
        LET routes == routers[reqs[i].router].routes
        IN  IF Len(routes) = 0 /\ reqs[i].path = Slash
            THEN reqs[i].body = "welcome.html" /\ reqs[i].statusCode = StatusOK
            ELSE reqs[i].body # "welcome.html"

\* C18 witness: every declared route was dropped and "/" got the welcome
\* document, while another request on the same table got the 404 page.
C18_Witness ==
    /\ config.Routes # <<>>
    /\ \E i \in Answered :
          /\ Len(routers[reqs[i].router].routes) = 0
          /\ reqs[i].path = Slash
          /\ reqs[i].body = "welcome.html"
    /\ \E i \in Answered :
          /\ reqs[i].path # Slash
          /\ reqs[i].statusCode = StatusNotFound

\* The requests no entry matched, the welcome case apart.
NotFoundRequests ==
    {i \in Answered : reqs[i].entry = Nil /\ reqs[i].body # "welcome.html"}

\* C19: a request that no entry matches (the welcome case apart) is
\* answered with status 404 and the body of the first tier that succeeds:
\* the custom page configured for 404 when its file is read, else the
\* embedded default page, else the status text. For a status code that has
\* no embedded page the last tier answers, so every case gets a body.
C19_ErrorPageTiers ==
    /\ \A i \in NotFoundRequests :
          LET custom == PageOf(builtPages[reqs[i].router])
          IN  /\ reqs[i].statusCode = StatusNotFound
              /\ reqs[i].looked = custom
              /\ reqs[i].customRead = "none" <=> custom = ""
              /\ reqs[i].body = (IF reqs[i].customRead = "ok" THEN custom
                                 ELSE defaultPagePath(StatusNotFound))
    /\ \A readable \in BOOLEAN :
          /\ errorPageBody(<<>>, StatusInternalServerError, readable)
                 = "Internal Server Error"
          /\ errorPageBody(Pages1, StatusInternalServerError, readable)
                 = "Internal Server Error"
          /\ errorPageBody(StatusInternalServerError :> "custom-500.html",
                           StatusInternalServerError, readable)
                 = (IF readable THEN "custom-500.html" ELSE "Internal Server Error")

\* C19 witness: the custom 404 page is configured, its file could not be
\* read, and the embedded page was served with status 404.
C19_Witness ==
    \E i \in NotFoundRequests :
        /\ reqs[i].pc = "done"
        /\ reqs[i].looked = "custom-1.html"
        /\ reqs[i].customRead = "failed"
        /\ reqs[i].body = "404.html"
        /\ reqs[i].statusCode = StatusNotFound

\* C20: lb.mu is held only between Lock and Unlock, by one request at a
\* time, and never by a request that is inside backend.ServeHTTP: a
\* request waiting for the mutex waits only for a request that is still
\* selecting, whatever upstream calls are in progress.
C20_LockNotHeldDuringUpstream ==
    \A i \in Requests :
        /\ reqs[i].pc = "upstream" => ~reqs[i].holds
        /\ reqs[i].holds => reqs[i].pc \in {"locked", "selected"}
        /\ reqs[i].pc \in {"locked", "selected"} =>
              lbMuHolders(reqs[i].router, reqs[i].entry) = {i}
        /\ (reqs[i].pc = "lb" /\ ~ENABLED LBLock(i) /\ mainPc # "exited") =>
              \E j \in Requests : j # i /\ reqs[j].pc \in {"locked", "selected"}

\* C20 witness: two requests of the same balancer are inside their
\* upstream calls at the same time, on different backends.
C20_Witness ==
    \E i, j \in Requests :
        /\ i # j
        /\ reqs[i].pc = "upstream" /\ reqs[j].pc = "upstream"
        /\ reqs[i].router = reqs[j].router /\ reqs[i].entry = reqs[j].entry
        /\ routers[reqs[i].router].routes[reqs[i].entry].handler.kind = "lb"
        /\ reqs[i].backend # reqs[j].backend

----------------------------------------------------------------------------
(* Properties of the load balancer under concurrent requests (SpecLB).     *)

\* The requests that have read the counter of the balancer of route m.
Selected(m) ==
    {i \in Requests : reqs[i].router = 1 /\ reqs[i].entry = m /\ reqs[i].ticket # -1}

\* Those of them that have incremented it.
Incremented(m) ==
    {i \in Selected(m) : reqs[i].pc \in {"upstream", "emit", "done", "aborted"}}

BalancedEntries == {m \in 1..Len(Table) : Table[m].handler.kind = "lb"}

\* C21: whatever the interleaving of k dispatches on one LoadBalancer, the
\* counter has advanced by the number of dispatches that incremented it,
\* the dispatches have read distinct consecutive counter values from 0,
\* each was given backend (value mod N), and over any N consecutive values
\* each backend is selected exactly once.
C21_AtomicRotation ==
    \A m \in BalancedEntries :
        LET N == Len(Table[m].handler.backends)
            tickets == {reqs[i].ticket : i \in Selected(m)}
        IN  /\ lbNext[1][m] = Cardinality(Incremented(m))
            /\ \A i, j \in Selected(m) : i # j => reqs[i].ticket # reqs[j].ticket
            /\ tickets = 0..(Cardinality(Selected(m)) - 1)
            /\ \A i \in Selected(m) : reqs[i].backend = (reqs[i].ticket % N) + 1
            /\ \A t \in tickets :
                  (t..(t + N - 1)) \subseteq tickets =>
                      \A b \in 1..N :
                          Cardinality({i \in Selected(m) :
                              /\ reqs[i].ticket \in t..(t + N - 1)
                              /\ reqs[i].backend = b}) = 1

\* C21 witness: three dispatches of one balancer of two backends are in
\* their upstream calls, and the request that arrived first read the last
\* counter value.
C21_Witness ==
    /\ Len(Table[1].handler.backends) = 2
    /\ \A i \in 1..3 : reqs[i].pc = "upstream" /\ reqs[i].entry = 1
    /\ reqs[1].ticket = 2
    /\ reqs[2].ticket = 0
    /\ reqs[3].ticket = 1
    /\ lbNext[1][1] = 3

\* C29: the step in which an upstream call ends, whatever its outcome,
\* leaves every table and every rotation counter as they were; the request
\* keeps the backend it was given and goes on to its end, it is not
\* dispatched again; and the backend of every dispatch is the one of its
\* counter value, so a backend that failed is selected again on its turn.
C29_FailureLeavesBalancerAlone ==
    /\ [][\A i \in Requests :
             (reqs[i].pc = "upstream" /\ reqs'[i].pc # "upstream") =>
                 /\ routers' = routers
                 /\ lbNext' = lbNext
                 /\ reqs'[i].entry = reqs[i].entry
                 /\ reqs'[i].backend = reqs[i].backend
                 /\ reqs'[i].ticket = reqs[i].ticket
                 /\ reqs'[i].pc \in {"emit", "aborted"}]_vars
    /\ [](\A m \in BalancedEntries : \A i \in Selected(m) :
              reqs[i].backend = lbSelect(Table[m].handler, reqs[i].ticket))

\* C29 witness: the call of a dispatch to a backend failed with 502, and
\* the dispatch one cycle later on the same balancer has selected the same
\* backend.
C29_Witness ==
    \E m \in BalancedEntries : \E i, j \in Selected(m) :
        /\ reqs[i].pc = "done"
        /\ reqs[i].statusCode = StatusBadGateway
        /\ reqs[j].pc = "selected"
        /\ reqs[j].ticket = reqs[i].ticket + Len(Table[m].handler.backends)
        /\ reqs[j].backend = reqs[i].backend

\* C34 (as stated): whatever value the rotation counter of a balancer has
\* reached, the values after the wrap included, the index computed from it
\* is a position of the backend list.
C34_IndexInRange ==
    \A m \in BalancedEntries :
        lbSelect(Table[m].handler, lbNext[1][m]) \in 1..Len(Table[m].handler.backends)

----------------------------------------------------------------------------
(* Publication of a new table while requests are in flight (SpecReload).   *)

\* The requests whose mainHandler has loaded a router and that have not
\* returned yet.
Dispatching ==
    {i \in Requests : reqs[i].router # Nil /\ reqs[i].pc \notin {"done", "aborted"}}

\* C22: the published table is only ever replaced by a newer one; a request
\* whose handler loads the router is dispatched by the table published at
\* that moment, never an older one; a request that loaded a table keeps
\* that table, its entry and the handlers of that table until it returns,
\* and the step that publishes a new table changes no request.
C22_DispatchOnLoadedTable ==
    [][/\ published' >= published
       /\ \A i \in Requests :
             (reqs[i].router = Nil /\ reqs'[i].router # Nil) =>
                 /\ reqs'[i].router = published
                 /\ reqs'[i].router = Len(routers)
       /\ \A i \in Dispatching :
             /\ reqs'[i].router = reqs[i].router
             /\ reqs'[i].entry = reqs[i].entry
             /\ routers'[reqs[i].router].routes = routers[reqs[i].router].routes
       /\ published' # published => reqs' = reqs]_vars

\* C22 witness: a request that loaded the first table is in its upstream
\* call on an entry of that table after a reload has published the second.
C22_Witness ==
    /\ published = 2
    /\ reqs[1].router = 1
    /\ reqs[1].entry # Nil
    /\ reqs[1].pc = "upstream"
    /\ routers[1].routes # routers[2].routes

----------------------------------------------------------------------------
(* The config source while the process runs.                               *)

\* C23 (as stated): once the initial load has completed, whenever the
\* watched file carries a modification time that no load has read, the
\* poller eventually makes a load attempt that reads the file as modified.
C23_EveryModificationReloaded ==
    (mainPc \in {"select", "serving"} /\ files[1].mtime # life.readTime)
        ~> (files[1].mtime = life.readTime)

\* A wake-up of the poller that saw a changed modification time.
ReloadStep == poller.pc = "sleep" /\ poller' # poller

\* C24 (as stated): every reload reads the file the poller selected at its
\* start and is watching.
C24_ReloadReadsWatchedFile ==
    [][ReloadStep => life'.readPath = poller.configPath]_vars

\* C25 (as stated): a reload that finds the watched file unreadable is
\* logged as failed and leads to no publication.
C25_UnreadableSourceFailsReload ==
    [][(ReloadStep /\ ~files[poller.configPath].readable) =>
           /\ reloads' = Append(reloads, "failed")
           /\ poller'.pc = "sleep"
           /\ published' = published]_vars

NoCandidate == \A k \in 1..NumCandidates : ~files[k].present

FreshDecode(doc) == Unmarshal(doc, ZeroConfig, <<>>)

\* C27 (as stated): the table a successful reload publishes has the routes
\* and the error-page map that the document read at that reload gives when
\* it is decoded on its own, whatever was loaded before.
C27_TableDeterminedByDocument ==
    [][(poller.pc = "store" /\ published' # published) =>
           LET fresh == FreshDecode(life.readDoc)
           IN  /\ routers'[published'].routes = newRouter(fresh.config).routes
               /\ mapOf(heap', routers'[published'].errorPages)
                      = mapOf(fresh.heap, fresh.config.ErrorPages)]_vars

----------------------------------------------------------------------------
(* The handlers of the entries of a compiled table (SpecBuild).            *)

\* The declared routes whose service is declared and cannot be given a
\* handler: no host and no server URL that parses.
Unusable == SelectSeq(config.Routes, LAMBDA rt : Declared(rt.Service) /\ ~Usable(rt.Service))

\* C33: every entry of every router built has a handler that can dispatch,
\* a single proxy or a LoadBalancer of one backend at least, so the index
\* a LoadBalancer computes exists in its backend list whatever its counter;
\* no entry stands for a route whose service has neither a host nor a
\* server URL that parses.
C33_EveryEntryDispatchable ==
    /\ \A g \in 1..Len(routers) : \A m \in 1..Len(routers[g].routes) :
          LET h == routers[g].routes[m].handler
          IN  \/ h.kind = "proxy"
              \/ /\ h.kind = "lb"
                 /\ Len(h.backends) >= 1
                 /\ \A b \in 1..Len(h.backends) : h.backends[b].kind = "proxy"
                 /\ \A next \in 0..MaxSeq : lbSelect(h, next) \in 1..Len(h.backends)
    /\ \A m \in 1..Len(Table) : Usable(Table[m].service)
    /\ Len(Table) <= Len(config.Routes) - Len(Unusable)
    /\ (Probed /\ probe.out.kind = "proxied") => probe.out.backend # Nil

\* C33 witness: the config declares a route on a service whose only server
\* URL does not parse and a route on a service without host; the table
\* has neither, and a request was dispatched by the balancer of the third.
C33_Witness ==
    /\ Len(config.Routes) = 3
    /\ config.Routes[1].Service = "badlb"
    /\ config.Routes[2].Service = "nohost"
    /\ Len(Table) = 1
    /\ Table[1].handler.kind = "lb"
    /\ Probed
    /\ probe.out.kind = "proxied"
    /\ probe.out.entry = 1

----------------------------------------------------------------------------
(* The directors of a table compiled from several routes (SpecBuild).      *)

\* The proxies behind entry m of the published table.
EntryProxies(m) ==
    LET h == Table[m].handler
    IN  IF h.kind = "lb" THEN {h.backends[b] : b \in 1..Len(h.backends)} ELSE {h}

\* The request path p of a request to target, with the declared path of
\* entry m removed as a literal prefix and the leading separator put back.
StrippedBy(m, target, p) ==
    LET targetPath == TrimPrefix(originalDirector(target, p), Table[m].path)
    IN  IF HasPrefix(targetPath, Slash) THEN targetPath ELSE Slash \o targetPath

\* C28: in a table compiled from several routes every backend of an entry
\* strips the declared path of that entry, and a request matched to an
\* entry is forwarded with that entry's path removed as a literal prefix,
\* never the path of another route of the config.
C28_DirectorStripsOwnPath ==
    /\ \A m \in 1..Len(Table) : \A proxy \in EntryProxies(m) : proxy.strip = Table[m].path
    /\ (Probed /\ probe.out.kind = "proxied") =>
          \E proxy \in EntryProxies(probe.out.entry) :
              /\ proxy.target.origin = probe.out.origin
              /\ probe.out.forwarded = StrippedBy(probe.out.entry, proxy.target, probe.path)

\* C28 witness: a request dispatched by the first of several entries, where
\* stripping the path of the last declared route would forward another path.
C28_Witness ==
    /\ Len(Table) > 1
    /\ Len(Table) = Len(config.Routes)
    /\ Probed
    /\ probe.out.kind = "proxied"
    /\ probe.out.entry = 1
    /\ Table[1].path # Table[Len(Table)].path
    /\ \A proxy \in EntryProxies(1) :
          probe.out.forwarded # StrippedBy(Len(Table), proxy.target, probe.path)

----------------------------------------------------------------------------
(* The status label of the request-completed event (SpecStatus).           *)

\* The request-completed events of request i.
Completed(i) == {k \in 1..Len(reqs[i].events) : reqs[i].events[k].kind = "inc"}

\* C30 (as stated): the status label is the first status code written on
\* the response, 200 when none was written.
C30_LabelIsFirstStatusWritten ==
    \A i \in Requests : \A k \in Completed(i) :
        reqs[i].events[k].code =
            IF reqs[i].written = <<>> THEN StatusOK ELSE reqs[i].written[1]

\* C30 (amended): the status label is the last status code written on the
\* response, that is the final status when informational responses were
\* relayed before it, and 200 as long as none was written.
C30_LabelIsLastStatusWritten ==
    \A i \in Requests :
        /\ (reqs[i].pc # "idle" /\ reqs[i].written = <<>>) => reqs[i].statusCode = StatusOK
        /\ \A k \in Completed(i) :
              reqs[i].events[k].code =
                  IF reqs[i].written = <<>> THEN StatusOK
                  ELSE reqs[i].written[Len(reqs[i].written)]

\* C30 witness: a request whose upstream sent 103 and then 200 has
\* completed with the label 200.
C30_Witness ==
    /\ reqs[1].pc = "done"
    /\ reqs[1].written = <<StatusEarlyHints, StatusOK>>
    /\ \E k \in Completed(1) : reqs[1].events[k].code = StatusOK

----------------------------------------------------------------------------
(* Failures of the auxiliary listeners (SpecListen).                       *)

\* C31: in automatic-HTTPS mode the step in which the ACME listener fails
\* changes nothing else: main goes on, the TLS listener keeps its state and
\* no request is touched; and while main serves with a failed ACME
\* listener the TLS listener is accepting requests.
C31_AcmeFailureOnlyLogged ==
    /\ [][(listeners.acme # "failed" /\ listeners'.acme = "failed") =>
              /\ life.mode = "https"
              /\ mainPc' = mainPc
              /\ life' = life
              /\ listeners'.server = listeners.server
              /\ reqs' = reqs
              /\ published' = published]_vars
    /\ []((listeners.acme = "failed" /\ mainPc = "serving") =>
              listeners.server = "accepting")

\* C31 witness: the ACME listener has failed, main is serving, and a
\* request accepted by the TLS listener has completed while another has
\* just been accepted.
C31_Witness ==
    /\ listeners.acme = "failed"
    /\ life.mode = "https"
    /\ mainPc = "serving"
    /\ life.result = "running"
    /\ reqs[1].pc = "done"
    /\ reqs[2].pc = "handler"

\* C38: the step in which the metrics listener fails ends the process with
\* a fatal error, whatever the proxy listeners are doing; from then on no
\* request is accepted or carried further and nothing is published.
C38_MetricsFailureFatal ==
    /\ [][(~life.metricsFailed /\ life'.metricsFailed) =>
              /\ mainPc' = "exited"
              /\ life'.result = "fatal"]_vars
    /\ [](life.metricsFailed => mainPc = "exited")
    /\ [][life.metricsFailed =>
              /\ reqs' = reqs
              /\ published' = published
              /\ listeners' = listeners]_vars

\* C38 witness: the metrics listener failed while the proxy listener was
\* accepting and a request was in its upstream call; the process has
\* exited with the request unfinished.
C38_Witness ==
    /\ life.metricsFailed
    /\ mainPc = "exited"
    /\ life.result = "fatal"
    /\ listeners.server = "accepting"
    /\ \E i \in Requests : reqs[i].pc = "upstream"

----------------------------------------------------------------------------
(* Reload attempts after a failed reload (SpecRetry).                      *)

\* C32: the step of a failed reload sets the last-seen modification time
\* to that of the file that failed, and the poller attempts a reload only
\* when the file's modification time differs from the last-seen one: a bad
\* file is tried once, and again only after it has been modified.
C32_FailedFileNotRetried ==
    /\ [][reloads' = Append(reloads, "failed") =>
              /\ poller'.pc = "sleep"
              /\ poller'.lastModTime = files[poller.configPath].mtime]_vars
    /\ [][ReloadStep => files[poller.configPath].mtime # poller.lastModTime]_vars
    /\ [](Len(reloads) <= writes)

\* C32 witness: a reload failed, the file was modified again, and the
\* second attempt has read the file as modified.
C32_Witness ==
    /\ Len(reloads) = 2
    /\ reloads[1] = "failed"
    /\ files[1].mtime = 3
    /\ life.readTime = 3
    /\ poller.lastModTime = 3

----------------------------------------------------------------------------
(* Requests and the published cell (SpecReload).                           *)

\* C36: a listener accepts requests only when a table is published, and
\* the cell, once set, is never emptied: every request finds a router in
\* metricsMiddleware and in mainHandler, and none is answered with the
\* 500 "Service unavailable" of mainHandler.
C36_AlwaysATablePublished ==
    /\ [](listeners.server = "accepting" => published # Nil)
    /\ [][published # Nil => published' # Nil]_vars
    /\ [](\A i \in Requests :
              /\ reqs[i].pc # "idle" => reqs[i].mwRouter # Nil
              /\ reqs[i].pc \notin {"idle", "handler"} => reqs[i].router # Nil
              /\ reqs[i].body # "Service unavailable"
              /\ StatusInternalServerError \notin
                     {reqs[i].written[k] : k \in 1..Len(reqs[i].written)})

\* C36 witness: a request that arrived after a failed reload has been
\* dispatched by the table that stayed published.
C36_Witness ==
    /\ reloads = <<"failed">>
    /\ reqs[1].seen = 1
    /\ reqs[1].pc = "done"
    /\ reqs[1].router = published
    /\ reqs[1].mwRouter = published

====
